---- MODULE Spec2Model ----
(***************************************************************************)
(* Model of the customer service agent (backend/services.py) with its      *)
(* data-access reads (backend/database.py), response models                *)
(* (backend/models.py) and settings (backend/config.py).                   *)
(*                                                                         *)
(* Python str values are TLA+ strings; Len, \o and SubSeq act on them as   *)
(* len, + and slicing.  A Python call that may raise is an operator that   *)
(* returns a record with a field "raised"; try/except is an IF on it.      *)
(* Floats are exact rationals n / d in lowest terms with d > 0, or one of   *)
(* the three non-finite values NaN, Inf, NegInf.                           *)
(***************************************************************************)
EXTENDS Integers, Sequences, FiniteSets, TLC

VARIABLES
    orders,                \* rows of table "orders", in insertion order
    products,              \* rows of table "products", in insertion order
    OPENAI_API_KEY,        \* settings.OPENAI_API_KEY ("" when not configured)
    openai_api_key,        \* module global openai.api_key
    intent_patterns,       \* CustomerServiceAgent.intent_patterns
    conversation_history,  \* CustomerServiceAgent.conversation_history
    req,                   \* the chat requests: where each one stands
    last,                  \* the call that returned most recently
    prev                   \* the call that a replayed call repeats
vars == <<orders, products, OPENAI_API_KEY, openai_api_key, intent_patterns,
          conversation_history, req, last, prev>>

\* Python None
None == "<None>"

\* name = v; F(name): the value is computed once and then used under a name
With(v, F(_)) == CHOOSE out \in {F(x) : x \in {v}} : TRUE

\* ------------------------------------------------------------------------
\* str helpers
\* ------------------------------------------------------------------------

\* s[i] (1-based)
CharAt(s, i) == SubSeq(s, i, i)

UpperChars == <<"A","B","C","D","E","F","G","H","I","J","K","L","M",
                "N","O","P","Q","R","S","T","U","V","W","X","Y","Z">>
LowerChars == <<"a","b","c","d","e","f","g","h","i","j","k","l","m",
                "n","o","p","q","r","s","t","u","v","w","x","y","z">>
DigitChars == <<"0","1","2","3","4","5","6","7","8","9">>

IsUpper(c) == \E i \in 1..26 : UpperChars[i] = c
IsLower(c) == \E i \in 1..26 : LowerChars[i] = c
IsDigit(c) == \E i \in 1..10 : DigitChars[i] = c
\* regex \s and str.strip() whitespace
IsSpace(c) == c \in {" ", "\t", "\n", "\r"}
\* regex \w
IsWord(c) == IsUpper(c) \/ IsLower(c) \/ IsDigit(c) \/ c = "_"

LowerChar(c) ==
    IF IsUpper(c) THEN LowerChars[CHOOSE i \in 1..26 : UpperChars[i] = c] ELSE c

\* str.lower()
RECURSIVE Lower(_)
Lower(s) ==
    IF s = "" THEN ""
    ELSE With(SubSeq(s, 2, Len(s)), LAMBDA rest : LowerChar(CharAt(s, 1)) \o Lower(rest))

\* s[i:i+len(p)] == p
MatchAt(p, s, i) == i + Len(p) - 1 <= Len(s) /\ SubSeq(s, i, i + Len(p) - 1) = p

\* the same, ignoring the case of s (p is in lower case)
MatchAtIgnoreCase(p, s, i) ==
    i + Len(p) - 1 <= Len(s) /\ Lower(SubSeq(s, i, i + Len(p) - 1)) = p

\* p in s
Contains(p, s) == \E i \in 1..(Len(s) - Len(p) + 1) : MatchAt(p, s, i)

\* str.strip()
RECURSIVE LStrip(_)
LStrip(s) == IF s # "" /\ IsSpace(CharAt(s, 1)) THEN LStrip(SubSeq(s, 2, Len(s))) ELSE s
RECURSIVE RStrip(_)
RStrip(s) == IF s # "" /\ IsSpace(CharAt(s, Len(s))) THEN RStrip(SubSeq(s, 1, Len(s) - 1)) ELSE s
Strip(s) == RStrip(LStrip(s))

\* str.split(sep) for a one-character sep: the list of fields
RECURSIVE SplitFrom(_, _, _, _)
SplitFrom(s, sep, start, i) ==
    IF i > Len(s) THEN <<SubSeq(s, start, Len(s))>>
    ELSE IF CharAt(s, i) = sep
         THEN <<SubSeq(s, start, i - 1)>> \o SplitFrom(s, sep, i + 1, i + 1)
         ELSE SplitFrom(s, sep, start, i + 1)
Split(s, sep) == SplitFrom(s, sep, 1, 1)

\* the end of the longest run of \s, of [:\s] and of \w characters that
\* starts at i (i - 1 when s[i] is not in the class)
RECURSIVE SpaceEnd(_, _)
SpaceEnd(s, i) ==
    IF i <= Len(s) /\ IsSpace(CharAt(s, i)) THEN SpaceEnd(s, i + 1) ELSE i - 1
RECURSIVE SepEnd(_, _)
SepEnd(s, i) ==
    IF i <= Len(s) /\ (CharAt(s, i) = ":" \/ IsSpace(CharAt(s, i)))
    THEN SepEnd(s, i + 1) ELSE i - 1
RECURSIVE WordEnd(_, _)
WordEnd(s, i) ==
    IF i <= Len(s) /\ IsWord(CharAt(s, i)) THEN WordEnd(s, i + 1) ELSE i - 1
\* the same for [^"]
RECURSIVE NonQuoteEnd(_, _)
NonQuoteEnd(s, i) ==
    IF i <= Len(s) /\ CharAt(s, i) # "\"" THEN NonQuoteEnd(s, i + 1) ELSE i - 1

\* ------------------------------------------------------------------------
\* float
\* ------------------------------------------------------------------------
\* a float: k says finite ("num", the value n / d) or which non-finite value
NaN    == [k |-> "nan",  n |-> 0, d |-> 1]
Inf    == [k |-> "inf",  n |-> 0, d |-> 1]
NegInf == [k |-> "-inf", n |-> 0, d |-> 1]

Abs(n) == IF n < 0 THEN -n ELSE n
RECURSIVE GCD(_, _)
GCD(a, b) == IF b = 0 THEN a ELSE GCD(b, a % b)

\* the float n / d (d > 0), in lowest terms
Frac(n, d) == LET g == GCD(Abs(n), d) IN [k |-> "num", n |-> n \div g, d |-> d \div g]

IsFinite(x) == x.k = "num"

\* x < y on floats; every comparison with NaN is false
FloatLess(x, y) ==
    IF x.k = "nan" \/ y.k = "nan" THEN FALSE
    ELSE IF x.k = "inf" \/ y.k = "-inf" THEN FALSE
    ELSE IF x.k = "-inf" \/ y.k = "inf" THEN TRUE
    ELSE x.n * y.d < y.n * x.d

\* x > y
FloatGreater(x, y) == FloatLess(y, x)

\* the builtin min(x, y): y when y < x, else x
PyMin(x, y) == IF FloatLess(y, x) THEN y ELSE x

DigitVal(c) == (CHOOSE i \in 1..10 : DigitChars[i] = c) - 1
AllDigits(s) == \A i \in 1..Len(s) : IsDigit(CharAt(s, i))
RECURSIVE DigitsVal(_)
DigitsVal(s) ==
    IF s = "" THEN 0
    ELSE 10 * DigitsVal(SubSeq(s, 1, Len(s) - 1)) + DigitVal(CharAt(s, Len(s)))
RECURSIVE Pow10(_)
Pow10(k) == IF k = 0 THEN 1 ELSE 10 * Pow10(k - 1)

\* float(s): surrounding whitespace is ignored; an optional sign, then
\* "nan", "inf" or "infinity" in any case, or decimal digits with an optional
\* point.  Anything else is a ValueError.  (Exponents and digit-group
\* underscores, which float() also accepts, do not occur in the answers
\* enumerated below.)
ParseFloat(s) ==
    LET t     == Strip(s)
        neg   == t # "" /\ CharAt(t, 1) = "-"
        sgn   == t # "" /\ CharAt(t, 1) \in {"-", "+"}
        body  == IF sgn THEN SubSeq(t, 2, Len(t)) ELSE t
        low   == Lower(body)
        parts == Split(body, ".")
        ip    == parts[1]
        fp    == IF Len(parts) = 2 THEN parts[2] ELSE ""
        mag   == DigitsVal(ip \o fp)
    IN  IF low = "nan" THEN [raised |-> FALSE, value |-> NaN]
        ELSE IF low \in {"inf", "infinity"}
             THEN [raised |-> FALSE, value |-> IF neg THEN NegInf ELSE Inf]
        ELSE IF /\ Len(parts) <= 2
                /\ AllDigits(ip) /\ AllDigits(fp)
                /\ ip \o fp # ""
             THEN [raised |-> FALSE,
                   value  |-> Frac(IF neg THEN -mag ELSE mag, Pow10(Len(fp)))]
        ELSE [raised |-> TRUE, value |-> NaN]

\* ------------------------------------------------------------------------
\* models.py
\* ------------------------------------------------------------------------
ORDER_STATUS   == "order_status"
PRODUCT_INFO   == "product_info"
RETURN_REQUEST == "return_request"
FAQ            == "faq"
STORE_HOURS    == "store_hours"
CONTACT        == "contact"
GREETING       == "greeting"
GOODBYE        == "goodbye"
UNKNOWN        == "unknown"

\* class IntentType(str, Enum): the member values
IntentType == {ORDER_STATUS, PRODUCT_INFO, RETURN_REQUEST, FAQ, STORE_HOURS,
               CONTACT, GREETING, GOODBYE, UNKNOWN}

\* IntentType(name): the member with that value, ValueError when there is none
IntentTypeOf(name) ==
    IF name \in IntentType THEN [raised |-> FALSE, value |-> name]
    ELSE [raised |-> TRUE, value |-> None]

\* class OrderStatusType / ReturnStatusType: the member values
OrderStatusType == {"Pending", "Processing", "Shipped", "In Transit", "Delivered",
                    "Cancelled", "Returned", "Return Requested"}
ReturnStatusType == {"Requested", "Pending Approval", "Approved", "Rejected"}

\* ------------------------------------------------------------------------
\* config.py
\* ------------------------------------------------------------------------
\* settings.MIN_CONFIDENCE = 0.7
MIN_CONFIDENCE == Frac(7, 10)
\* the float literals 0.0 and 1.0
Zero == Frac(0, 1)
One  == Frac(1, 1)

\* ------------------------------------------------------------------------
\* Python formatting used by the f-strings
\* ------------------------------------------------------------------------
\* str(n) for an int n >= 0
RECURSIVE NatStr(_)
NatStr(n) == IF n < 10 THEN DigitChars[n + 1] ELSE NatStr(n \div 10) \o DigitChars[(n % 10) + 1]

\* str(x) for a finite float x >= 0 with at most two decimals: the shortest
\* decimal that reads back as x, with at least one digit after the point
FloatStr(x) ==
    LET cents == (x.n * 100) \div x.d
        whole == cents \div 100
        frac  == cents % 100
    IN  NatStr(whole) \o "." \o
        (IF frac % 10 = 0 THEN NatStr(frac \div 10)
         ELSE IF frac < 10 THEN "0" \o NatStr(frac) ELSE NatStr(frac))

\* "\n".join(lines)
RECURSIVE Join(_)
Join(lines) ==
    IF Len(lines) = 0 THEN ""
    ELSE IF Len(lines) = 1 THEN lines[1]
    ELSE lines[1] \o "\n" \o Join(Tail(lines))

\* rows[:n] for n >= 0
\* rows[:n] without the truncation
TakeAll(rows, n) == rows

Take(rows, n) == SubSeq(rows, 1, IF n < Len(rows) THEN n ELSE Len(rows))

\* the rows that satisfy Keep, in their order
RECURSIVE Filter(_, _)
Filter(rows, keep) ==
    IF Len(rows) = 0 THEN <<>>
    ELSE (IF keep[Head(rows)] THEN <<Head(rows)>> ELSE <<>>) \o Filter(Tail(rows), keep)

\* truthiness of an Optional[str]
Truthy(v) == v # None /\ v # ""

\* ------------------------------------------------------------------------
\* database.py: the four reads.  Each opens a session, runs one query and
\* closes the session; "fail" says that the session or the query raises.
\* Rows come back in insertion order (no ORDER BY).
\* ------------------------------------------------------------------------
get_products_by_category(category, fail) ==
    IF fail THEN [raised |-> TRUE, value |-> <<>>]
    ELSE [raised |-> FALSE,
          value  |-> Filter(products, [p \in {products[i] : i \in 1..Len(products)}
                                        |-> p.category = category])]

get_orders_by_customer(customer_id, fail) ==
    IF fail THEN [raised |-> TRUE, value |-> <<>>]
    ELSE LET mine == Filter(orders, [o \in {orders[i] : i \in 1..Len(orders)}
                                      |-> o.customer_id = customer_id])
         IN  [raised |-> FALSE,
              value  |-> [i \in 1..Len(mine) |->
                            [order_id      |-> mine[i].order_id,
                             product_name  |-> mine[i].product_name,
                             order_date    |-> mine[i].order_date,
                             quantity      |-> mine[i].quantity,
                             order_amount  |-> mine[i].order_amount,
                             order_status  |-> mine[i].order_status,
                             return_status |-> mine[i].return_status]]]

\* value is <<>> for None and <<row>> for the first row with that order_id
get_order_by_id(order_id, fail) ==
    IF fail THEN [raised |-> TRUE, value |-> <<>>]
    ELSE [raised |-> FALSE,
          value  |-> Take(Filter(orders, [o \in {orders[i] : i \in 1..Len(orders)}
                                           |-> o.order_id = order_id]), 1)]

\* Product.name.contains(query) | Product.description.contains(query) is
\* LIKE '%query%', which SQLite compares without regard to ASCII case;
\* .limit(n) with a negative n is no limit in SQLite.  (The LIKE wildcards %
\* and _ do not occur in the queries enumerated below.)
search_products(query, limit, fail) ==
    IF fail THEN [raised |-> TRUE, value |-> <<>>]
    ELSE LET hits == Filter(products, [p \in {products[i] : i \in 1..Len(products)}
                                        |-> \/ Contains(Lower(query), Lower(p.name))
                                            \/ Contains(Lower(query), Lower(p.description))])
         IN  [raised |-> FALSE,
              value  |-> IF limit < 0 THEN hits ELSE Take(hits, limit)]

\* ------------------------------------------------------------------------
\* services.py: CustomerServiceAgent
\* ------------------------------------------------------------------------
\* _load_intent_patterns: the dict, as its items in insertion order
_load_intent_patterns == <<
    <<ORDER_STATUS,   <<"order status", "track order", "where is my order",
                        "order tracking", "delivery status", "shipping status">>>>,
    <<PRODUCT_INFO,   <<"product information", "tell me about", "what is",
                        "product details", "specifications", "price">>>>,
    <<RETURN_REQUEST, <<"return", "refund", "exchange", "send back",
                        "return policy", "return item">>>>,
    <<FAQ,            <<"help", "question", "how to", "what if",
                        "can you help", "support">>>>,
    <<STORE_HOURS,    <<"store hours", "opening hours", "when are you open",
                        "business hours", "store time">>>>,
    <<CONTACT,        <<"contact", "phone number", "email", "address",
                        "customer service", "support">>>>,
    <<GREETING,       <<"hello", "hi", "hey", "good morning", "good afternoon",
                        "good evening", "greetings">>>>,
    <<GOODBYE,        <<"bye", "goodbye", "see you", "thanks", "thank you",
                        "farewell", "have a good day">>>> >>

\* the (intent, pattern) pairs in the order the two nested loops visit them
RECURSIVE FlattenPatterns(_)
FlattenPatterns(table) ==
    IF Len(table) = 0 THEN <<>>
    ELSE [i \in 1..Len(table[1][2]) |-> <<table[1][1], table[1][2][i]>>]
         \o FlattenPatterns(Tail(table))

\* MatchLoop in which a match of equal confidence replaces the best so far
RECURSIVE MatchLoopLastWins(_, _, _, _)
MatchLoopLastWins(pairs, i, message_lower, best) ==
    IF i > Len(pairs) THEN best
    ELSE LET intent  == pairs[i][1]
             pattern == pairs[i][2]
         IN  IF Contains(pattern, message_lower)
             THEN IF Len(message_lower) = 0
                  THEN [raised |-> TRUE, intent |-> UNKNOWN, confidence |-> Zero]
                  ELSE LET confidence == Frac(Len(pattern), Len(message_lower))
                       IN  IF ~FloatLess(confidence, best.confidence)
                           THEN MatchLoopLastWins(pairs, i + 1, message_lower,
                                                  [raised |-> FALSE, intent |-> intent,
                                                   confidence |-> confidence])
                           ELSE MatchLoopLastWins(pairs, i + 1, message_lower, best)
             ELSE MatchLoopLastWins(pairs, i + 1, message_lower, best)

\* the loop of _classify_intent over pairs[i..]: best is the running
\* (best_intent, best_confidence); len(pattern) / len(message_lower) raises
\* ZeroDivisionError for an empty message
RECURSIVE MatchLoop(_, _, _, _)
MatchLoop(pairs, i, message_lower, best) ==
    IF i > Len(pairs) THEN best
    ELSE LET intent  == pairs[i][1]
             pattern == pairs[i][2]
         IN  IF Contains(pattern, message_lower)
             THEN IF Len(message_lower) = 0
                  THEN [raised |-> TRUE, intent |-> UNKNOWN, confidence |-> Zero]
                  ELSE LET confidence == Frac(Len(pattern), Len(message_lower))
                       IN  IF FloatGreater(confidence, best.confidence)
                           THEN MatchLoop(pairs, i + 1, message_lower,
                                          [raised |-> FALSE, intent |-> intent,
                                           confidence |-> confidence])
                           ELSE MatchLoop(pairs, i + 1, message_lower, best)
             ELSE MatchLoop(pairs, i + 1, message_lower, best)

\* classify_by_pattern that compares the phrases with the message as typed
classify_by_pattern_as_typed(table, message) ==
    With(FlattenPatterns(table), LAMBDA pairs :
        MatchLoop(pairs, 1, message,
                  [raised |-> FALSE, intent |-> UNKNOWN, confidence |-> Zero]))

\* classify_by_pattern that computes 1 / len(message_lower) before the loop
classify_by_pattern_dividing_first(table, message) ==
    With(Lower(message), LAMBDA message_lower :
    With(FlattenPatterns(table), LAMBDA pairs :
        IF Len(message_lower) = 0
        THEN [raised |-> TRUE, intent |-> UNKNOWN, confidence |-> Zero]
        ELSE MatchLoop(pairs, 1, message_lower,
                       [raised |-> FALSE, intent |-> UNKNOWN, confidence |-> Zero])))

\* _classify_intent up to the threshold test: the best pattern match
classify_by_pattern(table, message) ==
    With(Lower(message), LAMBDA message_lower :
    With(FlattenPatterns(table), LAMBDA pairs :
        MatchLoop(pairs, 1, message_lower,
                  [raised |-> FALSE, intent |-> UNKNOWN, confidence |-> Zero])))

\* the test with <= in the place of <
AtOrBelowThreshold(best_confidence) == ~FloatGreater(best_confidence, MIN_CONFIDENCE)

\* the test that sends _classify_intent to the external classifier
BelowThreshold(best_confidence) == FloatLess(best_confidence, MIN_CONFIDENCE)

\* the last line of the try block of _classify_intent
ClassifyReturn(best_intent, best_confidence) ==
    [intent |-> best_intent, confidence |-> PyMin(best_confidence, One)]

\* the except branch of _classify_intent and of _classify_with_openai
ClassifyFailed == [intent |-> UNKNOWN, confidence |-> Zero]

\* What openai.ChatCompletion.acreate does: it raises, or it returns a
\* response whose choices[0].message.content is None or a str.
ServiceError   == [kind |-> "raise",   content |-> ""]
ContentNone    == [kind |-> "none",    content |-> ""]
Content(text)  == [kind |-> "content", content |-> text]

\* ParseOpenAI without the IntentType(...) conversion: the name the service
\* gave is passed on as it is
ParseOpenAIUnchecked(outcome) ==
    IF outcome.kind # "content" THEN ClassifyFailed
    ELSE With(Split(Strip(outcome.content), ","), LAMBDA fields :
             IF Len(fields) # 2 THEN ClassifyFailed
             ELSE With(ParseFloat(Strip(fields[2])), LAMBDA confidence :
                      IF confidence.raised THEN ClassifyFailed
                      ELSE [intent |-> Strip(fields[1]), confidence |-> confidence.value]))

\* ParseOpenAI that reads the first two fields of the answer and ignores
\* the others, where the code unpacks into exactly two names
ParseOpenAIFirstTwo(outcome) ==
    IF outcome.kind # "content" THEN ClassifyFailed
    ELSE With(Split(Strip(outcome.content), ","), LAMBDA fields :
             IF Len(fields) < 2 THEN ClassifyFailed
             ELSE With(IntentTypeOf(Strip(fields[1])), LAMBDA intent :
                  With(ParseFloat(Strip(fields[2])), LAMBDA confidence :
                      IF intent.raised \/ confidence.raised THEN ClassifyFailed
                      ELSE [intent |-> intent.value, confidence |-> confidence.value])))

\* _classify_with_openai from the call's outcome on: strip, split(','),
\* unpack into exactly two names, IntentType(...), float(...); any exception
\* gives (unknown, 0.0)
ParseOpenAI(outcome) ==
    IF outcome.kind # "content" THEN ClassifyFailed
    ELSE With(Split(Strip(outcome.content), ","), LAMBDA fields :
             IF Len(fields) # 2 THEN ClassifyFailed
             ELSE With(IntentTypeOf(Strip(fields[1])), LAMBDA intent :
                  With(ParseFloat(Strip(fields[2])), LAMBDA confidence :
                      IF intent.raised \/ confidence.raised THEN ClassifyFailed
                      ELSE [intent |-> intent.value, confidence |-> confidence.value])))

\* _extract_order_id: re.search of each pattern in turn, ignoring case; the
\* three character classes are disjoint from what follows them, so each
\* greedy run is the only way to match.
\* r'order\s+(\w+)' matched at position i: the captured group, or None
OrderPatternAt(s, i) ==
    LET sp == SpaceEnd(s, i + 5)
        w  == WordEnd(s, sp + 1)
    IN  IF MatchAtIgnoreCase("order", s, i) /\ sp >= i + 5 /\ w >= sp + 1
        THEN SubSeq(s, sp + 1, w) ELSE None
\* r'orderid[:\s]+(\w+)'
OrderIdPatternAt(s, i) ==
    LET sp == SepEnd(s, i + 7)
        w  == WordEnd(s, sp + 1)
    IN  IF MatchAtIgnoreCase("orderid", s, i) /\ sp >= i + 7 /\ w >= sp + 1
        THEN SubSeq(s, sp + 1, w) ELSE None
\* r'order\s+id[:\s]+(\w+)'
OrderSpaceIdPatternAt(s, i) ==
    LET sp  == SpaceEnd(s, i + 5)
        sep == SepEnd(s, sp + 3)
        w   == WordEnd(s, sep + 1)
    IN  IF /\ MatchAtIgnoreCase("order", s, i) /\ sp >= i + 5
           /\ MatchAtIgnoreCase("id", s, sp + 1)
           /\ sep >= sp + 3 /\ w >= sep + 1
        THEN SubSeq(s, sep + 1, w) ELSE None

\* re.search: the match at the leftmost position that has one
FirstMatch(s, At(_, _)) ==
    With({i \in 1..Len(s) : At(s, i) # None}, LAMBDA starts :
        IF starts = {} THEN None
        ELSE At(s, CHOOSE i \in starts : \A j \in starts : i <= j))

\* _extract_order_id with the pattern for "order id: <token>" tried first
_extract_order_id_id_first(message) ==
    With(FirstMatch(message, OrderSpaceIdPatternAt), LAMBDA first :
        IF first # None THEN first
        ELSE With(FirstMatch(message, OrderPatternAt), LAMBDA second :
                IF second # None THEN second
                ELSE FirstMatch(message, OrderIdPatternAt)))

_extract_order_id(message) ==
    With(FirstMatch(message, OrderPatternAt), LAMBDA first :
        IF first # None THEN first
        ELSE With(FirstMatch(message, OrderIdPatternAt), LAMBDA second :
                IF second # None THEN second
                ELSE FirstMatch(message, OrderSpaceIdPatternAt)))

\* r'"([^"]+)"' matched at position i
QuotedAt(s, i) ==
    LET e == NonQuoteEnd(s, i + 1)
    IN  IF CharAt(s, i) = "\"" /\ e >= i + 1 /\ e + 1 <= Len(s)
        THEN SubSeq(s, i + 1, e) ELSE None

product_keywords == <<"rtx", "geforce", "shield", "jetson", "graphics card", "gpu">>

\* _extract_product_name that scans the keywords before it looks for quotes
_extract_product_name_keywords_first(message) ==
    With({k \in 1..Len(product_keywords) :
            Contains(Lower(product_keywords[k]), Lower(message))},
         LAMBDA found :
            IF found # {}
            THEN product_keywords[CHOOSE k \in found : \A j \in found : k <= j]
            ELSE FirstMatch(message, QuotedAt))

_extract_product_name(message) ==
    With(FirstMatch(message, QuotedAt), LAMBDA quoted_match :
        IF quoted_match # None THEN quoted_match
        ELSE With({k \in 1..Len(product_keywords) :
                     Contains(Lower(product_keywords[k]), Lower(message))},
                  LAMBDA found :
                     IF found = {} THEN None
                     ELSE product_keywords[CHOOSE k \in found : \A j \in found : k <= j]))

\* A handler's outcome: it raised, or it returned a dict with these two keys.
Raised == [raised |-> TRUE, message |-> "", suggested_actions |-> <<>>]
Reply(message, suggested_actions) ==
    [raised |-> FALSE, message |-> message, suggested_actions |-> suggested_actions]

\* The bullet of the list lines is U+2022 in the source; "*" stands for it.
OrderLine(o) == "* " \o o.order_id \o " - " \o o.product_name \o " (" \o o.order_status \o ")"
ProductLine(p) == "* " \o p.name \o " - $" \o FloatStr(p.price) \o " (" \o p.category \o ")"

\* _handle_order_status that lists the customer's orders whenever there is a
\* customer id, and looks for an order id in the message only without one
_handle_order_status_customer_first(message, customer_id, dbfail) ==
    With(_extract_order_id(message), LAMBDA order_id :
        IF Truthy(customer_id)
        THEN With(get_orders_by_customer(customer_id, dbfail), LAMBDA found :
                 IF found.raised THEN Raised
                 ELSE IF Len(found.value) > 0
                 THEN Reply("Here are your recent orders:\n"
                              \o Join([i \in 1..Len(Take(found.value, 3)) |->
                                         OrderLine(found.value[i])])
                              \o "\n\nPlease provide an order ID for detailed status.",
                            <<"Provide Order ID", "View All Orders">>)
                 ELSE Reply("I couldn't find any orders for your account. Please provide an order ID or contact support.",
                            <<"Provide Order ID", "Contact Support">>))
        ELSE IF Truthy(order_id)
        THEN With(get_order_by_id(order_id, dbfail), LAMBDA order :
                 IF order.raised THEN Raised
                 ELSE IF Len(order.value) > 0
                 THEN Reply("Your order " \o order_id \o " is currently "
                              \o order.value[1].order_status \o ".",
                            <<"Track Another Order", "View Order Details", "Contact Support">>)
                 ELSE Reply("I couldn't find order " \o order_id
                              \o ". Please check the order ID and try again.",
                            <<"Check Order ID", "Contact Support">>))
        ELSE Reply("To check your order status, please provide your order ID or customer ID.",
                   <<"Provide Order ID", "Provide Customer ID", "Contact Support">>))

_handle_order_status(message, customer_id, dbfail) ==
    With(_extract_order_id(message), LAMBDA order_id :
        IF Truthy(order_id)
        THEN With(get_order_by_id(order_id, dbfail), LAMBDA order :
                 IF order.raised THEN Raised
                 ELSE IF Len(order.value) > 0
                 THEN Reply("Your order " \o order_id \o " is currently "
                              \o order.value[1].order_status \o "."
                              \o (IF Truthy(order.value[1].return_status)
                                  THEN " Return status: " \o order.value[1].return_status \o "."
                                  ELSE ""),
                            <<"Track Another Order", "View Order Details", "Contact Support">>)
                 ELSE Reply("I couldn't find order " \o order_id
                              \o ". Please check the order ID and try again.",
                            <<"Check Order ID", "Contact Support">>))
        ELSE IF Truthy(customer_id)
        THEN With(get_orders_by_customer(customer_id, dbfail), LAMBDA found :
                 IF found.raised THEN Raised
                 ELSE IF Len(found.value) > 0
                 THEN LET recent_orders == Take(found.value, 3)
                          order_list == Join([i \in 1..Len(recent_orders) |->
                                                OrderLine(recent_orders[i])])
                      IN  Reply("Here are your recent orders:\n" \o order_list
                                  \o "\n\nPlease provide an order ID for detailed status.",
                                <<"Provide Order ID", "View All Orders">>)
                 ELSE Reply("I couldn't find any orders for your account. Please provide an order ID or contact support.",
                            <<"Provide Order ID", "Contact Support">>))
        ELSE Reply("To check your order status, please provide your order ID or customer ID.",
                   <<"Provide Order ID", "Provide Customer ID", "Contact Support">>))

\* _handle_product_info that has nothing to say when the search finds nothing
_handle_product_info_silent(message, dbfail) ==
    With(_extract_product_name(message), LAMBDA product_name :
        IF Truthy(product_name)
        THEN With(search_products(product_name, 5, dbfail), LAMBDA found :
                 IF found.raised THEN Raised
                 ELSE Reply(Join([i \in 1..Len(found.value) |-> ProductLine(found.value[i])]),
                            [i \in 1..Len(found.value) |-> "View Product Details"]))
        ELSE Reply("I'd be happy to help you find product information. What product are you looking for?",
                   <<"Search Products", "Browse Categories", "View Featured Products">>))

_handle_product_info(message, dbfail) ==
    With(_extract_product_name(message), LAMBDA product_name :
        IF Truthy(product_name)
        THEN With(search_products(product_name, 5, dbfail), LAMBDA found :
                 IF found.raised THEN Raised
                 ELSE IF Len(found.value) > 0
                 THEN Reply("Here are products matching '" \o product_name \o "':\n"
                              \o Join([i \in 1..Len(found.value) |-> ProductLine(found.value[i])]),
                            <<"View Product Details", "Search Another Product", "Browse Categories">>)
                 ELSE Reply("I couldn't find any products matching '" \o product_name
                              \o "'. Please try a different search term.",
                            <<"Try Different Search", "Browse Categories", "Contact Support">>))
        ELSE Reply("I'd be happy to help you find product information. What product are you looking for?",
                   <<"Search Products", "Browse Categories", "View Featured Products">>))

\* _handle_return_request that offers the return for an order of any status
_handle_return_request_any_status(message, customer_id, dbfail) ==
    With(_extract_order_id(message), LAMBDA order_id :
        IF Truthy(order_id)
        THEN With(get_order_by_id(order_id, dbfail), LAMBDA order :
                 IF order.raised THEN Raised
                 ELSE IF Len(order.value) > 0
                 THEN Reply("Your order " \o order_id
                              \o " is eligible for return. Please provide a reason for the return.",
                            <<"Provide Return Reason", "View Return Policy", "Contact Support">>)
                 ELSE Reply("I couldn't find order " \o order_id
                              \o ". Please check the order ID and try again.",
                            <<"Check Order ID", "Contact Support">>))
        ELSE Reply("To process a return, please provide your order ID.",
                   <<"Provide Order ID", "View Return Policy", "Contact Support">>))

\* _handle_return_request that offers no return for an order whose return
\* is already under way
_handle_return_request_no_pending_return(message, customer_id, dbfail) ==
    With(_extract_order_id(message), LAMBDA order_id :
        IF Truthy(order_id)
        THEN With(get_order_by_id(order_id, dbfail), LAMBDA order :
                 IF order.raised THEN Raised
                 ELSE IF Len(order.value) > 0
                 THEN IF order.value[1].order_status = "Delivered"
                         /\ ~Truthy(order.value[1].return_status)
                      THEN Reply("Your order " \o order_id
                                   \o " is eligible for return. Please provide a reason for the return.",
                                 <<"Provide Return Reason", "View Return Policy", "Contact Support">>)
                      ELSE Reply("Your order " \o order_id \o " is currently "
                                   \o order.value[1].order_status
                                   \o ". Returns are only available for delivered orders.",
                                 <<"Check Order Status", "Contact Support">>)
                 ELSE Reply("I couldn't find order " \o order_id
                              \o ". Please check the order ID and try again.",
                            <<"Check Order ID", "Contact Support">>))
        ELSE Reply("To process a return, please provide your order ID.",
                   <<"Provide Order ID", "View Return Policy", "Contact Support">>))

\* _handle_return_request that finds only the orders of the asking customer
_handle_return_request_own_orders_only(message, customer_id, dbfail) ==
    With(_extract_order_id(message), LAMBDA order_id :
        IF Truthy(order_id)
        THEN With(get_order_by_id(order_id, dbfail), LAMBDA order :
                 IF order.raised THEN Raised
                 ELSE IF Len(order.value) > 0 /\ order.value[1].customer_id = customer_id
                 THEN IF order.value[1].order_status = "Delivered"
                      THEN Reply("Your order " \o order_id
                                   \o " is eligible for return. Please provide a reason for the return.",
                                 <<"Provide Return Reason", "View Return Policy", "Contact Support">>)
                      ELSE Reply("Your order " \o order_id \o " is currently "
                                   \o order.value[1].order_status
                                   \o ". Returns are only available for delivered orders.",
                                 <<"Check Order Status", "Contact Support">>)
                 ELSE Reply("I couldn't find order " \o order_id
                              \o ". Please check the order ID and try again.",
                            <<"Check Order ID", "Contact Support">>))
        ELSE Reply("To process a return, please provide your order ID.",
                   <<"Provide Order ID", "View Return Policy", "Contact Support">>))

_handle_return_request(message, customer_id, dbfail) ==
    With(_extract_order_id(message), LAMBDA order_id :
        IF Truthy(order_id)
        THEN With(get_order_by_id(order_id, dbfail), LAMBDA order :
                 IF order.raised THEN Raised
                 ELSE IF Len(order.value) > 0
                 THEN IF order.value[1].order_status = "Delivered"
                      THEN Reply("Your order " \o order_id
                                   \o " is eligible for return. Please provide a reason for the return.",
                                 <<"Provide Return Reason", "View Return Policy", "Contact Support">>)
                      ELSE Reply("Your order " \o order_id \o " is currently "
                                   \o order.value[1].order_status
                                   \o ". Returns are only available for delivered orders.",
                                 <<"Check Order Status", "Contact Support">>)
                 ELSE Reply("I couldn't find order " \o order_id
                              \o ". Please check the order ID and try again.",
                            <<"Check Order ID", "Contact Support">>))
        ELSE Reply("To process a return, please provide your order ID.",
                   <<"Provide Order ID", "View Return Policy", "Contact Support">>))

\* faq_responses, as its items in insertion order
faq_responses == <<
    <<"return policy", "We accept returns within 30 days of purchase. Items must be in original condition with tags attached.">>,
    <<"shipping", "We offer free shipping on orders over $50. Standard delivery takes 3-5 business days.">>,
    <<"payment", "We accept all major credit cards, PayPal, and bank transfers.">>,
    <<"warranty", "All products come with a 1-year manufacturer warranty.">>,
    <<"contact", "You can reach us at support@nvidia.com or call 1-800-NVIDIA-1.">> >>

_handle_faq(message) ==
    With(Lower(message), LAMBDA message_lower :
    With({k \in 1..Len(faq_responses) : Contains(faq_responses[k][1], message_lower)},
         LAMBDA hits :
        IF hits # {}
        THEN Reply(faq_responses[CHOOSE k \in hits : \A j \in hits : k <= j][2],
                   <<"Ask Another Question", "Contact Support", "View Full FAQ">>)
        ELSE Reply("I'd be happy to help! What would you like to know? You can ask about our return policy, shipping, payment methods, or warranty information.",
                   <<"Return Policy", "Shipping Info", "Payment Methods", "Warranty Info", "Contact Support">>)))

_handle_store_hours ==
    Reply("Our store hours are:\n* Monday to Friday: 9 AM - 6 PM\n* Saturday: 10 AM - 4 PM\n* Sunday: Closed\n\nWe're here to help during business hours!",
          <<"Contact Us", "View Products", "Check Order Status">>)

_handle_contact ==
    Reply("You can contact us through:\n* Email: support@nvidia.com\n* Phone: 1-800-NVIDIA-1\n* Live Chat: Available during business hours\n* Address: 2788 San Tomas Expressway, Santa Clara, CA 95051",
          <<"Email Support", "Call Us", "Live Chat", "Visit Store">>)

_handle_greeting ==
    Reply("Hello! I'm your NVIDIA customer service assistant. How can I help you today?",
          <<"Check Order Status", "Product Information", "Return Request", "General Help">>)

_handle_goodbye ==
    Reply("Thank you for contacting NVIDIA customer service! Have a great day!",
          <<"Rate Service", "Contact Again", "Visit Website">>)

_handle_unknown(message) ==
    Reply("I'm not sure I understand your request. Could you please rephrase your question or choose from the options below?",
          <<"Check Order Status", "Product Information", "Return Request", "Contact Support", "General Help">>)

\* the if/elif chain of _generate_response
Dispatch(message, intent, customer_id, dbfail) ==
    IF intent = ORDER_STATUS THEN _handle_order_status(message, customer_id, dbfail)
    ELSE IF intent = PRODUCT_INFO THEN _handle_product_info(message, dbfail)
    ELSE IF intent = RETURN_REQUEST THEN _handle_return_request(message, customer_id, dbfail)
    ELSE IF intent = FAQ THEN _handle_faq(message)
    ELSE IF intent = STORE_HOURS THEN _handle_store_hours
    ELSE IF intent = CONTACT THEN _handle_contact
    ELSE IF intent = GREETING THEN _handle_greeting
    ELSE IF intent = GOODBYE THEN _handle_goodbye
    ELSE _handle_unknown(message)

\* the reads of handlers that ask again when a read has failed
DbReadsRetrying(message, intent, customer_id, dbfail) ==
    With(IF intent \in {ORDER_STATUS, RETURN_REQUEST} /\ Truthy(_extract_order_id(message))
         THEN <<"get_order_by_id">>
         ELSE IF intent = ORDER_STATUS /\ Truthy(customer_id)
         THEN <<"get_orders_by_customer">>
         ELSE IF intent = PRODUCT_INFO /\ Truthy(_extract_product_name(message))
         THEN <<"search_products">>
         ELSE <<>>,
         LAMBDA asked : IF dbfail THEN asked \o asked ELSE asked)

\* the database reads the handler of the intent issues, in order: each
\* handler has one read on each of its paths, and a read that raises leaves
\* the handler at once
DbReads(message, intent, customer_id, dbfail) ==
    IF intent = ORDER_STATUS
    THEN IF Truthy(_extract_order_id(message)) THEN <<"get_order_by_id">>
         ELSE IF Truthy(customer_id) THEN <<"get_orders_by_customer">>
         ELSE <<>>
    ELSE IF intent = PRODUCT_INFO
    THEN IF Truthy(_extract_product_name(message)) THEN <<"search_products">>
         ELSE <<>>
    ELSE IF intent = RETURN_REQUEST
    THEN IF Truthy(_extract_order_id(message)) THEN <<"get_order_by_id">>
         ELSE <<>>
    ELSE <<>>

\* the dict the except branch of _generate_response returns
CouldNotProcess ==
    Reply("I apologize, but I couldn't process your request. Please try rephrasing your question.",
          <<"Contact Support", "Try Again">>)

_generate_response(message, intent, customer_id, session_id, dbfail) ==
    With(Dispatch(message, intent, customer_id, dbfail), LAMBDA handled :
        IF handled.raised THEN CouldNotProcess ELSE handled)

\* _store_conversation without its try/except: a failing write raises
_store_conversation_unguarded(session_id, customer_id, message, response, intent, confidence, logfail) ==
    IF logfail THEN [raised |-> TRUE, logged |-> <<>>]
    ELSE [raised |-> FALSE,
          logged |-> << [session_id |-> session_id, intent |-> intent,
                         confidence |-> confidence] >>]

\* _store_conversation: the turn goes to the logger as one line made of the
\* session id, the intent and the confidence; "logfail" says that writing
\* it raises, which the except branch absorbs.  logged is what reached the log.
_store_conversation(session_id, customer_id, message, response, intent, confidence, logfail) ==
    IF logfail THEN [raised |-> FALSE, logged |-> <<>>]
    ELSE [raised |-> FALSE,
          logged |-> << [session_id |-> session_id, intent |-> intent,
                         confidence |-> confidence] >>]

\* the dict the except branch of process_message returns
TechnicalDifficulties ==
    [message |-> "I apologize, but I'm experiencing technical difficulties. Please try again later or contact our support team.",
     intent |-> UNKNOWN,
     confidence |-> Zero,
     suggested_actions |-> <<"Contact Support", "Try Again">>]

\* process_message from the classification on: generate the response, store
\* the conversation when there is a session id, return the result
Respond(message, customer_id, session_id, cls, dbfail, logfail) ==
    With(_generate_response(message, cls.intent, customer_id, session_id, dbfail),
         LAMBDA response :
    With(IF Truthy(session_id)
         THEN _store_conversation(session_id, customer_id, message, response.message,
                                  cls.intent, cls.confidence, logfail)
         ELSE [raised |-> FALSE, logged |-> <<>>],
         LAMBDA stored :
        IF response.raised \/ stored.raised
        THEN [result |-> TechnicalDifficulties, logged |-> <<>>]
        ELSE [result |-> [message |-> response.message,
                          intent |-> cls.intent,
                          confidence |-> cls.confidence,
                          suggested_actions |-> response.suggested_actions],
              logged |-> stored.logged]))

\* _classify_intent as a whole, given what the external call does if made
_classify_intent(table, message, outcome) ==
    With(classify_by_pattern(table, message), LAMBDA best :
        IF best.raised THEN ClassifyFailed
        ELSE IF ~BelowThreshold(best.confidence)
        THEN ClassifyReturn(best.intent, best.confidence)
        ELSE IF ~Truthy(OPENAI_API_KEY) THEN ClassifyReturn(UNKNOWN, Zero)
        ELSE With(ParseOpenAI(outcome), LAMBDA parsed :
                 ClassifyReturn(parsed.intent, parsed.confidence)))

\* process_message as a whole: one call that runs alone
process_message(table, message, customer_id, session_id, outcome, dbfail, logfail) ==
    With(_classify_intent(table, message, outcome), LAMBDA cls :
        Respond(message, customer_id, session_id, cls, dbfail, logfail))

\* ------------------------------------------------------------------------
\* services.py: OrderService, ProductService
\* ------------------------------------------------------------------------
\* A pydantic model built from keyword arguments: every required field must
\* be among them and every enum-typed field that is given must hold a member
\* value (or None where Optional); other keywords are ignored.  Otherwise the
\* constructor raises ValidationError.
Validates(kwargs, required, enums) ==
    /\ required \subseteq DOMAIN kwargs
    /\ \A f \in DOMAIN enums : f \in DOMAIN kwargs => kwargs[f] \in enums[f]

\* class OrderStatus(BaseModel)
OrderStatusRequired == {"order_id", "customer_id", "product_name", "order_date",
                        "quantity", "order_amount", "status"}
OrderStatusEnums == [status        |-> OrderStatusType,
                     return_status |-> ReturnStatusType \cup {None}]

\* class ReturnResponse(BaseModel)
ReturnResponseRequired == {"return_id", "status", "message"}
ReturnResponseEnums == [status |-> ReturnStatusType]

\* OrderService.get_order_status: <<>> for None, <<model>> for a model
get_order_status(order_id, dbfail) ==
    LET order_data == get_order_by_id(order_id, dbfail)
    IN  IF order_data.raised THEN <<>>
        ELSE IF Len(order_data.value) > 0
        THEN LET row    == order_data.value[1]
                 kwargs == [order_id      |-> row.order_id,
                            customer_id   |-> row.customer_id,
                            product_name  |-> row.product_name,
                            order_date    |-> row.order_date,
                            quantity      |-> row.quantity,
                            order_amount  |-> row.order_amount,
                            order_status  |-> row.order_status,
                            return_status |-> row.return_status,
                            return_reason |-> row.return_reason,
                            notes         |-> row.notes]
             IN  IF Validates(kwargs, OrderStatusRequired, OrderStatusEnums)
                 THEN <<kwargs>>
                 ELSE <<>>
        ELSE <<>>

\* a ReturnResponse; estimated_refund is <<>> for None, <<amount>> otherwise
ReturnResponse(return_id, status, message, estimated_refund) ==
    LET kwargs == [return_id |-> return_id, status |-> status, message |-> message,
                   estimated_refund |-> estimated_refund]
    IN  [raised |-> ~Validates(kwargs, ReturnResponseRequired, ReturnResponseEnums),
         value  |-> kwargs]

\* process_return_request without the test of order_status
process_return_request_any_status(order_id, reason, today, dbfail) ==
    LET order  == get_order_by_id(order_id, dbfail)
        failed == ReturnResponse("", "Rejected", "Error processing return request", <<>>)
        tried  == IF order.raised THEN [raised |-> TRUE, value |-> failed.value]
                  ELSE IF Len(order.value) = 0
                  THEN ReturnResponse("", "Rejected", "Order not found", <<>>)
                  ELSE ReturnResponse("RET-" \o order_id \o "-" \o today, "Requested",
                                      "Return request submitted successfully",
                                      <<order.value[1].order_amount>>)
    IN  IF tried.raised THEN failed ELSE tried

\* process_return_request that refuses an order whose return is already
\* under way
process_return_request_once(order_id, reason, today, dbfail) ==
    LET order  == get_order_by_id(order_id, dbfail)
        failed == ReturnResponse("", "Rejected", "Error processing return request", <<>>)
        tried  == IF order.raised THEN [raised |-> TRUE, value |-> failed.value]
                  ELSE IF Len(order.value) = 0
                  THEN ReturnResponse("", "Rejected", "Order not found", <<>>)
                  ELSE IF order.value[1].order_status # "Delivered"
                          \/ Truthy(order.value[1].return_status)
                  THEN ReturnResponse("", "Rejected",
                                      "Returns only available for delivered orders", <<>>)
                  ELSE ReturnResponse("RET-" \o order_id \o "-" \o today, "Requested",
                                      "Return request submitted successfully",
                                      <<order.value[1].order_amount>>)
    IN  IF tried.raised THEN failed ELSE tried

\* OrderService.process_return_request; today is
\* datetime.now().strftime('%Y%m%d')
process_return_request(order_id, reason, today, dbfail) ==
    LET order  == get_order_by_id(order_id, dbfail)
        failed == ReturnResponse("", "Rejected", "Error processing return request", <<>>)
        tried  == IF order.raised THEN [raised |-> TRUE, value |-> failed.value]
                  ELSE IF Len(order.value) = 0
                  THEN ReturnResponse("", "Rejected", "Order not found", <<>>)
                  ELSE IF order.value[1].order_status # "Delivered"
                  THEN ReturnResponse("", "Rejected",
                                      "Returns only available for delivered orders", <<>>)
                  ELSE ReturnResponse("RET-" \o order_id \o "-" \o today, "Requested",
                                      "Return request submitted successfully",
                                      <<order.value[1].order_amount>>)
    IN  IF tried.raised THEN failed ELSE tried

\* ProductService.search_products: the list of ProductInfo
ProductService_search_products(query, category, limit, dbfail) ==
    LET found == IF Truthy(category) THEN get_products_by_category(category, dbfail)
                 ELSE IF Truthy(query) THEN search_products(query, limit, dbfail)
                 ELSE search_products("", limit, dbfail)
    IN  IF found.raised THEN <<>>
        ELSE [i \in 1..Len(found.value) |->
                [name         |-> found.value[i].name,
                 category     |-> found.value[i].category,
                 subcategory  |-> found.value[i].subcategory,
                 description  |-> found.value[i].description,
                 price        |-> found.value[i].price,
                 availability |-> TRUE]]

\* ------------------------------------------------------------------------
\* The inputs
\* ------------------------------------------------------------------------
\* the number of chat requests that can be in flight together
MaxRequests == 2
Req == 1..MaxRequests

Order(order_id, customer_id, product_name, order_amount, order_status, return_status) ==
    [order_id |-> order_id, customer_id |-> customer_id, product_name |-> product_name,
     product_description |-> product_name, order_date |-> "2024-01-15", quantity |-> 1,
     order_amount |-> order_amount, order_status |-> order_status,
     return_status |-> return_status, return_reason |-> None, notes |-> None]

Product(id, name, category, subcategory, description, price) ==
    [id |-> id, name |-> name, category |-> category, subcategory |-> subcategory,
     description |-> description, price |-> price]

\* an order table whose first order has the given status; order_id is unique
SeededOrders(status) == <<
    Order("52768", "C1", "GeForce RTX 4090", Frac(159999, 100), status, None),
    Order("4065",  "C1", "Shield TV",        Frac(199, 1),      "Processing", None),
    Order("69268", "C1", "Jetson Nano",      Frac(995, 10),     "Delivered", "Requested"),
    Order("7",     "C1", "RTX 4080",         Frac(1199, 1),     "Shipped", None),
    Order("AB12",  "C2", "Shield TV",        Frac(199, 1),      "Delivered", "Approved") >>

SeededProducts == <<
    Product(1, "GeForce RTX 4090", "GPU", "Desktop", "Flagship graphics card", Frac(159999, 100)),
    Product(2, "GeForce RTX 4080", "GPU", "Desktop", "High-end GPU", Frac(1199, 1)),
    Product(3, "Shield TV", "NVIDIA Electronics", "Streaming", "Media streamer", Frac(199, 1)),
    Product(4, "Jetson Nano", "NVIDIA Electronics", "Embedded", "Small AI computer with a gpu", Frac(995, 10)) >>

\* the stores the process may start with: empty tables, or the seeded ones
Stores == { [orders |-> <<>>, products |-> <<>>] }
          \cup { [orders |-> SeededOrders(st), products |-> SeededProducts] :
                   st \in {"Delivered"} }

Messages == {"hello", "", "Where is my order 52768", "order status", "track order",
             "tell me about gpu", "support", "return policy",
             "I want to return order 52768", "What is the status of order 4065?"}
CustomerIds == {None, "C1", "C9"}
SessionIds == {None, "s1"}

\* what the external classifier may do
Outcomes == {ServiceError, ContentNone,
             Content("order_status,0.9"), Content("return_request, 0.85"),
             Content(" faq , 0.4 "), Content("bogus,0.5"),
             Content("faq"), Content("faq,0.5,0.6"), Content("faq,high"),
             Content("greeting,-0.5"), Content("contact,1.5"), Content("goodbye,nan")}
\* no call was made
NoOutcome == [kind |-> "nocall", content |-> ""]

OrderIds == {"52768", "4065", "69268", "404"}
Reasons == {"damaged"}
Dates == {"20240115", "20240116"}
Queries == {None, "rtx"}
Categories == {None, "GPU"}
Limits == {1, 10}

\* ------------------------------------------------------------------------
\* The state machine
\* ------------------------------------------------------------------------
NoCall == [op |-> "none"]
Idle == [pc |-> "idle", message |-> "", customer_id |-> None, session_id |-> None,
         replay |-> <<>>]

Init ==
    /\ \E st \in Stores : orders = st.orders /\ products = st.products
    /\ OPENAI_API_KEY \in {"", "sk-test"}
    /\ openai_api_key = None
    /\ intent_patterns = _load_intent_patterns
    /\ conversation_history = <<>>
    /\ req = [r \in Req |-> Idle]
    /\ last = NoCall
    /\ prev = NoCall

\* the record of a process_message call that has returned
\* (cls is what _classify_intent returned to it, reads the database reads it made)
Returned(r, outcome, dbfail, logfail, cls, done) ==
    [op |-> "process_message", message |-> req[r].message,
     customer_id |-> req[r].customer_id, session_id |-> req[r].session_id,
     outcome |-> outcome, dbfail |-> dbfail, logfail |-> logfail,
     cls |-> cls, result |-> done.result, logged |-> done.logged,
     reads |-> DbReads(req[r].message, cls.intent, req[r].customer_id, dbfail)]

\* the environment's answers for request r: free, or those of the call it replays
EnvAllowed(r, outcome, dbfail, logfail) ==
    /\ logfail => Truthy(req[r].session_id)
    /\ req[r].replay # <<>> =>
          /\ dbfail = req[r].replay[1].dbfail
          /\ logfail = req[r].replay[1].logfail
          /\ outcome.kind # "nocall" => outcome = req[r].replay[1].outcome

\* no chat request is in flight and the caller has taken the last result
Quiet == last = NoCall /\ \A q \in Req : req[q].pc = "idle"

\* POST /api/chat arrives: the endpoint calls process_message
Chat(r, message, customer_id, session_id) ==
    /\ req[r].pc = "idle"
    /\ req' = [req EXCEPT ![r] = [pc |-> "called", message |-> message,
                                  customer_id |-> customer_id,
                                  session_id |-> session_id, replay |-> <<>>]]
    /\ last' = NoCall
    /\ prev' = NoCall
    /\ UNCHANGED <<orders, products, OPENAI_API_KEY, openai_api_key,
                   intent_patterns, conversation_history>>

\* process_message of an agent that keeps the messages it has seen in
\* conversation_history and is sure of its classification once it has seen one
ProcessMessageRemembering(r, dbfail, logfail) ==
    /\ req[r].pc = "called"
    /\ EnvAllowed(r, NoOutcome, dbfail, logfail)
    /\ \E best \in {classify_by_pattern(intent_patterns, req[r].message)} :
       \E cls \in {IF best.raised THEN ClassifyFailed
                   ELSE IF conversation_history # <<>>
                   THEN ClassifyReturn(best.intent, One)
                   ELSE ClassifyReturn(best.intent, best.confidence)} :
       \E done \in {Respond(req[r].message, req[r].customer_id,
                             req[r].session_id, cls, dbfail, logfail)} :
          last' = Returned(r, NoOutcome, dbfail, logfail, cls, done)
    /\ conversation_history' = <<req[r].message>>
    /\ req' = [req EXCEPT ![r] = Idle]
    /\ UNCHANGED <<orders, products, OPENAI_API_KEY, openai_api_key,
                   intent_patterns, prev>>

\* process_message of an agent that serves its requests through one queue: a
\* request starts only when no other is waiting for the external classifier
ProcessMessageQueued(r, dbfail, logfail) ==
    /\ req[r].pc = "called"
    /\ \A q \in Req : req[q].pc # "awaiting"
    /\ EnvAllowed(r, NoOutcome, dbfail, logfail)
    /\ \E best \in {classify_by_pattern(intent_patterns, req[r].message)} :
       \E cls \in {IF best.raised THEN ClassifyFailed
                   ELSE IF ~BelowThreshold(best.confidence)
                   THEN ClassifyReturn(best.intent, best.confidence)
                   ELSE ClassifyReturn(UNKNOWN, Zero)} :
       IF ~best.raised /\ BelowThreshold(best.confidence) /\ Truthy(OPENAI_API_KEY)
       THEN /\ openai_api_key' = OPENAI_API_KEY
            /\ req' = [req EXCEPT ![r].pc = "awaiting"]
            /\ UNCHANGED last
       ELSE /\ \E done \in {Respond(req[r].message, req[r].customer_id,
                                     req[r].session_id, cls, dbfail, logfail)} :
                  last' = Returned(r, NoOutcome, dbfail, logfail, cls, done)
            /\ req' = [req EXCEPT ![r] = Idle]
            /\ UNCHANGED openai_api_key
    /\ UNCHANGED <<orders, products, OPENAI_API_KEY, intent_patterns,
                   conversation_history, prev>>

\* process_message runs from its start to the await of the external call, or,
\* when no external call is made, to its return
ProcessMessage(r, dbfail, logfail) ==
    /\ req[r].pc = "called"
    /\ EnvAllowed(r, NoOutcome, dbfail, logfail)
    /\ \E best \in {classify_by_pattern(intent_patterns, req[r].message)} :
       LET finish(cls) ==
               /\ \E done \in {Respond(req[r].message, req[r].customer_id,
                                        req[r].session_id, cls, dbfail, logfail)} :
                     last' = Returned(r, NoOutcome, dbfail, logfail, cls, done)
               /\ req' = [req EXCEPT ![r] = Idle]
               /\ UNCHANGED openai_api_key
       IN  IF best.raised THEN finish(ClassifyFailed)
           ELSE IF ~BelowThreshold(best.confidence)
           THEN finish(ClassifyReturn(best.intent, best.confidence))
           ELSE IF ~Truthy(OPENAI_API_KEY)
           THEN finish(ClassifyReturn(UNKNOWN, Zero))
           ELSE /\ openai_api_key' = OPENAI_API_KEY
                /\ req' = [req EXCEPT ![r].pc = "awaiting"]
                /\ UNCHANGED last
    /\ UNCHANGED <<orders, products, OPENAI_API_KEY, intent_patterns,
                   conversation_history, prev>>

\* OpenAIAnswers of an agent that keeps the message being classified in a
\* field of the agent: the request resumes with the message of whichever
\* request wrote the field last
OpenAIAnswersShared(r, outcome, dbfail, logfail) ==
    /\ req[r].pc = "awaiting"
    /\ EnvAllowed(r, outcome, dbfail, logfail)
    /\ \E q \in Req :
       /\ req[q].pc = "awaiting"
       /\ \E parsed \in {ParseOpenAI(outcome)} :
          \E cls \in {ClassifyReturn(parsed.intent, parsed.confidence)} :
          \E done \in {Respond(req[q].message, req[r].customer_id,
                                req[r].session_id, cls, dbfail, logfail)} :
             last' = Returned(r, outcome, dbfail, logfail, cls, done)
    /\ req' = [req EXCEPT ![r] = Idle]
    /\ UNCHANGED <<orders, products, OPENAI_API_KEY, openai_api_key,
                   intent_patterns, conversation_history, prev>>

\* OpenAIAnswers of an agent that keeps its pattern match when the external
\* classifier is less sure than the pattern stage was
OpenAIAnswersKeepingBest(r, outcome, dbfail, logfail) ==
    /\ req[r].pc = "awaiting"
    /\ EnvAllowed(r, outcome, dbfail, logfail)
    /\ \E parsed \in {ParseOpenAI(outcome)} :
       \E best \in {classify_by_pattern(intent_patterns, req[r].message)} :
       \E cls \in {IF FloatLess(parsed.confidence, best.confidence)
                   THEN ClassifyReturn(best.intent, best.confidence)
                   ELSE ClassifyReturn(parsed.intent, parsed.confidence)} :
       \E done \in {Respond(req[r].message, req[r].customer_id,
                             req[r].session_id, cls, dbfail, logfail)} :
          last' = Returned(r, outcome, dbfail, logfail, cls, done)
    /\ req' = [req EXCEPT ![r] = Idle]
    /\ UNCHANGED <<orders, products, OPENAI_API_KEY, openai_api_key,
                   intent_patterns, conversation_history, prev>>

\* the external call of request r ends with the given outcome and
\* process_message runs on to its return
OpenAIAnswers(r, outcome, dbfail, logfail) ==
    /\ req[r].pc = "awaiting"
    /\ EnvAllowed(r, outcome, dbfail, logfail)
    /\ \E parsed \in {ParseOpenAI(outcome)} :
       \E cls \in {ClassifyReturn(parsed.intent, parsed.confidence)} :
       \E done \in {Respond(req[r].message, req[r].customer_id,
                             req[r].session_id, cls, dbfail, logfail)} :
          last' = Returned(r, outcome, dbfail, logfail, cls, done)
    /\ req' = [req EXCEPT ![r] = Idle]
    /\ UNCHANGED <<orders, products, OPENAI_API_KEY, openai_api_key,
                   intent_patterns, conversation_history, prev>>

\* the caller repeats the call that returned last, and the environment
\* answers it as it answered that call
Repeat(r) ==
    /\ \A q \in Req : req[q].pc = "idle"
    /\ last.op = "process_message"
    /\ prev = NoCall
    /\ req' = [req EXCEPT ![r] = [pc |-> "called", message |-> last.message,
                                  customer_id |-> last.customer_id,
                                  session_id |-> last.session_id,
                                  replay |-> << [outcome |-> last.outcome,
                                                 dbfail |-> last.dbfail,
                                                 logfail |-> last.logfail] >>]]
    /\ prev' = last
    /\ last' = NoCall
    /\ UNCHANGED <<orders, products, OPENAI_API_KEY, openai_api_key,
                   intent_patterns, conversation_history>>

\* The three other endpoints are served between chat requests: they share
\* no state with a chat request in flight.
\* GET /api/orders/{order_id}: OrderService.get_order_status
GetOrderStatus(order_id, dbfail) ==
    /\ Quiet
    /\ last' = [op |-> "get_order_status", order_id |-> order_id, dbfail |-> dbfail,
                returned |-> get_order_status(order_id, dbfail)]
    /\ UNCHANGED <<orders, products, OPENAI_API_KEY, openai_api_key,
                   intent_patterns, conversation_history, req, prev>>

\* a return request that also marks the order as having a return requested
ProcessReturnRequestUpdating(order_id, reason, today, dbfail) ==
    /\ Quiet
    /\ \E returned \in {process_return_request(order_id, reason, today, dbfail)} :
       /\ last' = [op |-> "process_return_request", order_id |-> order_id,
                   reason |-> reason, today |-> today, dbfail |-> dbfail,
                   returned |-> returned]
       /\ orders' = [i \in 1..Len(orders) |->
                       IF orders[i].order_id = order_id
                          /\ returned.value.status = "Requested"
                       THEN [orders[i] EXCEPT !.return_status = "Requested"]
                       ELSE orders[i]]
    /\ UNCHANGED <<products, OPENAI_API_KEY, openai_api_key,
                   intent_patterns, conversation_history, req, prev>>

\* POST /api/returns: OrderService.process_return_request
ProcessReturnRequest(order_id, reason, today, dbfail) ==
    /\ Quiet
    /\ last' = [op |-> "process_return_request", order_id |-> order_id,
                reason |-> reason, today |-> today, dbfail |-> dbfail,
                returned |-> process_return_request(order_id, reason, today, dbfail)]
    /\ UNCHANGED <<orders, products, OPENAI_API_KEY, openai_api_key,
                   intent_patterns, conversation_history, req, prev>>

\* GET /api/products: ProductService.search_products
SearchProducts(query, category, limit, dbfail) ==
    /\ Quiet
    /\ last' = [op |-> "search_products", query |-> query, category |-> category,
                limit |-> limit, dbfail |-> dbfail,
                returned |-> ProductService_search_products(query, category, limit, dbfail)]
    /\ UNCHANGED <<orders, products, OPENAI_API_KEY, openai_api_key,
                   intent_patterns, conversation_history, req, prev>>

\* the caller takes the result of the call that returned last
Deliver ==
    /\ last # NoCall
    /\ last' = NoCall
    /\ prev' = NoCall
    /\ UNCHANGED <<orders, products, OPENAI_API_KEY, openai_api_key,
                   intent_patterns, conversation_history, req>>

\* a chat request that arrives while no other is in flight
ChatAlone(r, message, customer_id, session_id) ==
    /\ Quiet
    /\ Chat(r, message, customer_id, session_id)

\* one chat request at a time, and the three other endpoints
Next ==
    \/ \E r \in Req, m \in Messages, c \in CustomerIds, s \in SessionIds :
          ChatAlone(r, m, c, s)
    \/ \E r \in Req, dbfail \in BOOLEAN, logfail \in BOOLEAN :
          ProcessMessage(r, dbfail, logfail)
    \/ \E r \in Req, o \in Outcomes, dbfail \in BOOLEAN, logfail \in BOOLEAN :
          OpenAIAnswers(r, o, dbfail, logfail)
    \/ \E r \in Req : Repeat(r)
    \/ \E id \in OrderIds, dbfail \in BOOLEAN : GetOrderStatus(id, dbfail)
    \/ \E id \in OrderIds, reason \in Reasons, d \in Dates, dbfail \in BOOLEAN :
          ProcessReturnRequest(id, reason, d, dbfail)
    \/ \E q \in Queries, c \in Categories, n \in Limits, dbfail \in BOOLEAN :
          SearchProducts(q, c, n, dbfail)
    \/ Deliver

Spec == Init /\ [][Next]_vars

\* Chat requests that overlap: a request may arrive while others are in
\* flight, and the requests awaiting the external classifier are answered in
\* any order.
ConcMessages == {"Where is my order 52768", "I want to return order 52768", ""}
ConcOutcomes == {ServiceError, Content("order_status,0.9")}

NextConc ==
    \/ \E r \in Req, m \in ConcMessages : Chat(r, m, "C1", "s1")
    \/ \E r \in Req, dbfail \in BOOLEAN : ProcessMessage(r, dbfail, FALSE)
    \/ \E r \in Req, o \in ConcOutcomes, dbfail \in BOOLEAN :
          OpenAIAnswers(r, o, dbfail, FALSE)

SpecConc == Init /\ [][NextConc]_vars

\* Overlapping chat requests under the scheduling of the event loop: it runs
\* every coroutine that is ready, so a request that has been called runs to
\* its await or to its return.  Nothing makes the external service answer.
FairMessages == {"track order", "hm"}

NextFair ==
    \/ \E r \in Req, m \in FairMessages : Chat(r, m, None, None)
    \/ \E r \in Req : ProcessMessage(r, FALSE, FALSE)
    \/ \E r \in Req, o \in ConcOutcomes : OpenAIAnswers(r, o, FALSE, FALSE)

SpecFair ==
    /\ Init
    /\ [][NextFair]_vars
    /\ \A r \in Req : WF_vars(ProcessMessage(r, FALSE, FALSE))

\* ------------------------------------------------------------------------
\* The functions of the agent, each applied on its own to inputs drawn from
\* the sets below
\* ------------------------------------------------------------------------
\* messages made of a registered phrase, typed in some letter case, with
\* something before and after it
PhrasePrefixes == {"", "Hi, ", "WHAT IS the "}
PhraseCores == {"Order Status", "support", "RETURN POLICY", "price", "contact", "thank you"}
PhraseSuffixes == {"", "?", " us", " and refund"}
PhraseMessages == {p \o c \o x : p \in PhrasePrefixes, c \in PhraseCores, x \in PhraseSuffixes}
\* messages in which two phrases of the same length occur
TieMessages == {"hello email", "email. hello", "what is contact", "refund or return"}
\* messages without any registered phrase
NoPhraseMessages == {"", "xyz", "   ", "12345", "ordr stat", "Where is it"}
ClassifyMessages == PhraseMessages \cup TieMessages \cup NoPhraseMessages

\* the pattern stage of _classify_intent applied to a message
ClassifyByPattern(message) ==
    /\ Quiet
    /\ last' = [op |-> "classify_by_pattern", message |-> message,
                returned |-> classify_by_pattern(intent_patterns, message)]
    /\ UNCHANGED <<orders, products, OPENAI_API_KEY, openai_api_key,
                   intent_patterns, conversation_history, req, prev>>

\* messages that name an order in some way, and messages that do not
OrderWords == {"order id: ", "Order ID: ", "ORDER id:", "orderid: ", "OrderID:",
               "order ", "Order  ", "my order is late, order ",
               "What is the status of order ", "reorder ", "ordering ", "order: ", ""}
Tokens == {"AB12", "52768", "x_9"}
Tails == {"", "?", " please"}
OrderIdMessages == {w \o t \o x : w \in OrderWords, t \in Tokens, x \in Tails}
                   \cup {"order", "order id", "track my package", "the order-id 5"}

\* _extract_order_id applied to a message
ExtractOrderId(message) ==
    /\ Quiet
    /\ last' = [op |-> "extract_order_id", message |-> message,
                returned |-> _extract_order_id(message)]
    /\ UNCHANGED <<orders, products, OPENAI_API_KEY, openai_api_key,
                   intent_patterns, conversation_history, req, prev>>

\* messages with quoted text, with product keywords, with both, with neither
ProductMessages == {"I want the \"Super Widget\"", "the \"RTX\" or the gpu",
                    "\"\" then \"shield\"", "\"\"", "say \"a\" and \"b\"",
                    "open \" quote rtx", "a \"\"\"x\" b", "GeForce RTX 4090",
                    "gpu or rtx", "Graphics Card for a Jetson", "SHIELD tv and JETSON",
                    "gpu", "nothing here", ""}

\* _extract_product_name applied to a message
ExtractProductName(message) ==
    /\ Quiet
    /\ last' = [op |-> "extract_product_name", message |-> message,
                returned |-> _extract_product_name(message)]
    /\ UNCHANGED <<orders, products, OPENAI_API_KEY, openai_api_key,
                   intent_patterns, conversation_history, req, prev>>

\* the order ids that the messages for the handlers carry: delivered,
\* processing, delivered with a return requested, shipped, and unknown
CarriedIds == {"52768", "4065", "69268", "7", "404"}
HandlerMessages == {"order " \o id : id \in CarriedIds}
                   \cup {"I want to return my order", "", "tell me about \"Shield\"",
                         "gpu", "the \"Quadro\" card", "return policy", "hello"}

\* customers with four orders, one order and no order in the seeded store
HandlerCustomerIds == CustomerIds \cup {"C2"}

\* _generate_response called with an intent, a message and a customer id
GenerateResponse(intent, message, customer_id, dbfail) ==
    /\ Quiet
    /\ last' = [op |-> "generate_response", intent |-> intent, message |-> message,
                customer_id |-> customer_id, dbfail |-> dbfail,
                handled |-> Dispatch(message, intent, customer_id, dbfail),
                returned |-> _generate_response(message, intent, customer_id, None, dbfail)]
    /\ UNCHANGED <<orders, products, OPENAI_API_KEY, openai_api_key,
                   intent_patterns, conversation_history, req, prev>>

NextFun ==
    \/ \E m \in ClassifyMessages : ClassifyByPattern(m)
    \/ \E m \in OrderIdMessages : ExtractOrderId(m)
    \/ \E m \in ProductMessages : ExtractProductName(m)
    \/ \E intent \in IntentType, m \in HandlerMessages, c \in HandlerCustomerIds,
          dbfail \in BOOLEAN : GenerateResponse(intent, m, c, dbfail)
    \/ Deliver

SpecFun == Init /\ [][NextFun]_vars

\* POST /api/returns again for the order and the reason of the request that
\* returned last, on the same date or on a later call's date
RepeatReturnRequest(today, dbfail) ==
    /\ last.op = "process_return_request"
    /\ prev = NoCall
    /\ \A q \in Req : req[q].pc = "idle"
    /\ prev' = last
    /\ last' = [op |-> "process_return_request", order_id |-> last.order_id,
                reason |-> last.reason, today |-> today, dbfail |-> dbfail,
                returned |-> process_return_request(last.order_id, last.reason,
                                                    today, dbfail)]
    /\ UNCHANGED <<orders, products, OPENAI_API_KEY, openai_api_key,
                   intent_patterns, conversation_history, req>>

\* return requests, each made once or twice
NextReturns ==
    \/ \E id \in OrderIds, reason \in Reasons, d \in Dates, dbfail \in BOOLEAN :
          ProcessReturnRequest(id, reason, d, dbfail)
    \/ \E d \in Dates, dbfail \in BOOLEAN : RepeatReturnRequest(d, dbfail)
    \/ Deliver

SpecReturns == Init /\ [][NextReturns]_vars

\* Chat requests, one at a time, with messages whose best pattern confidence
\* is 0.7 ("contact us"), just below it, above it, and 0.0
ThresholdMessages == {"contact us", "contact us!", "contact u", "contact",
                      "thanks a lot", "xyz", ""}
ThresholdOutcomes == {ServiceError, Content("faq,0.9"), Content("contact,0.7"),
                      Content(" faq , 0.4 "), Content("contact,1.5")}

NextThreshold ==
    \/ \E r \in Req, m \in ThresholdMessages, s \in SessionIds :
          ChatAlone(r, m, None, s)
    \/ \E r \in Req, logfail \in BOOLEAN : ProcessMessage(r, FALSE, logfail)
    \/ \E r \in Req, o \in ThresholdOutcomes, logfail \in BOOLEAN :
          OpenAIAnswers(r, o, FALSE, logfail)
    \/ Deliver

SpecThreshold == Init /\ [][NextThreshold]_vars

\* ------------------------------------------------------------------------
\* The properties
\* ------------------------------------------------------------------------
IsFloat(c) == c = NaN \/ c = Inf \/ c = NegInf \/ (c.k = "num" /\ c.d > 0)

WellFormed(result) ==
    /\ DOMAIN result = {"message", "intent", "confidence", "suggested_actions"}
    /\ result.message # ""
    /\ result.intent \in IntentType
    /\ IsFloat(result.confidence)
    /\ result.suggested_actions \in Seq({result.suggested_actions[i] :
                                           i \in DOMAIN result.suggested_actions})

\* the handler of the call that returned last made a read and the read raised
DbReadRaised ==
    /\ last.dbfail
    /\ Dispatch(last.message, last.cls.intent, last.customer_id, TRUE).raised

\* C1: whatever the message, the customer id and the session id, and whether
\* or not the external classifier, a data-access read or the conversation log
\* fails, process_message returns a result with a non-empty message, an intent
\* of IntentType, a confidence and a list of suggested actions.
C1_ProcessMessageIsTotal ==
    last.op = "process_message" => WellFormed(last.result)

\* a call whose read of the store raised and whose write to the log failed
C1_Witness ==
    /\ last.op = "process_message"
    /\ DbReadRaised
    /\ last.logfail
    /\ Truthy(last.session_id)
    /\ WellFormed(last.result)

\* C2: when a data-access read raises while process_message handles a message,
\* process_message returns the technical-difficulties response: that message,
\* intent unknown, confidence 0.0 and ["Contact Support", "Try Again"].
C2_ReadFailureGivesTechnicalDifficulties ==
    last.op = "process_message" /\ DbReadRaised => last.result = TechnicalDifficulties

InUnitInterval(c) == c.k = "num" /\ c.d > 0 /\ 0 <= c.n /\ c.n <= c.d

\* C3: the confidence of every result of process_message lies in [0.0, 1.0],
\* also when the external classifier answers "intent,confidence" with a number
\* below 0.0 or above 1.0.
C3_ConfidenceInUnitInterval ==
    last.op = "process_message" => InUnitInterval(last.result.confidence)

OrdersWithId(order_id) ==
    Filter(orders, [o \in {orders[i] : i \in 1..Len(orders)} |-> o.order_id = order_id])

\* C4: for an order id that is in the store get_order_status returns that
\* order's record with its order status, and it returns none only for an id
\* that is not in the store.
C4_LookupReturnsEveryStoredOrder ==
    last.op = "get_order_status" /\ ~last.dbfail =>
        IF OrdersWithId(last.order_id) # <<>>
        THEN /\ last.returned # <<>>
             /\ last.returned[1].order_id = last.order_id
             /\ last.returned[1].order_status = OrdersWithId(last.order_id)[1].order_status
        ELSE last.returned = <<>>

\* C5: process_return_request returns Requested, the return id
\* RET-<order_id>-<date> and the order's amount as estimated refund exactly
\* when the lookup succeeds, the order exists and its order_status is
\* "Delivered"; otherwise it returns Rejected, an empty return id and no
\* estimated refund.  It never raises.
C5_ReturnRequestedIffDelivered ==
    last.op = "process_return_request" =>
        LET found    == OrdersWithId(last.order_id)
            eligible == /\ ~last.dbfail
                        /\ found # <<>>
                        /\ found[1].order_status = "Delivered"
            r        == last.returned.value
        IN  /\ ~last.returned.raised
            /\ IF eligible
               THEN /\ r.status = "Requested"
                    /\ r.return_id = "RET-" \o last.order_id \o "-" \o last.today
                    /\ r.return_id # ""
                    /\ r.estimated_refund = <<found[1].order_amount>>
               ELSE /\ r.status = "Rejected"
                    /\ r.return_id = ""
                    /\ r.estimated_refund = <<>>

\* a return of a delivered order was requested
C5_Witness ==
    /\ last.op = "process_return_request"
    /\ last.returned.value.status = "Requested"
    /\ last.returned.value.return_id = "RET-52768-20240116"

\* C6: no call of process_message, get_order_status, search_products or
\* process_return_request changes an order or a product record.
C6_StoreIsOnlyRead ==
    [][orders' = orders /\ products' = products]_vars

\* process_return_request returned Requested for an order whose order_status
\* and return_status are still what the store started with
C6_Witness ==
    /\ last.op = "process_return_request"
    /\ last.returned.value.status = "Requested"
    /\ OrdersWithId(last.order_id)[1].order_status = "Delivered"
    /\ OrdersWithId(last.order_id)[1].return_status = "Requested"

\* C7: a call of process_message without session id that is repeated with the
\* same message and customer id, against the same store and with the same
\* answers of the environment, returns the same result.
C7_RepeatedCallSameResult ==
    /\ prev.op = "process_message"
    /\ last.op = "process_message"
    /\ prev.session_id = None
    => /\ last.message = prev.message
       /\ last.customer_id = prev.customer_id
       /\ last.result = prev.result

\* a call that went to the external classifier and to the store was repeated
C7_Witness ==
    /\ prev.op = "process_message"
    /\ last.op = "process_message"
    /\ prev.session_id = None
    /\ last.outcome = Content("order_status,0.9")
    /\ last.result = prev.result
    /\ last.result.intent = ORDER_STATUS

\* C8: of process_message calls that overlap, each returns what
\* process_message returns when it runs alone with the same store and the
\* same answers of the environment, and the calls leave intent_patterns and
\* conversation_history as the constructor set them.
C8_ConcurrentCallsAreIndependent ==
    /\ last.op = "process_message" =>
          last.result = process_message(_load_intent_patterns, last.message,
                                        last.customer_id, last.session_id,
                                        last.outcome, last.dbfail, last.logfail).result
    /\ intent_patterns = _load_intent_patterns
    /\ conversation_history = <<>>

\* a call returned from the external classifier while another call, with
\* another message, was still waiting for it
C8_Witness ==
    /\ last.op = "process_message"
    /\ last.outcome.kind = "content"
    /\ \E q \in Req : req[q].pc = "awaiting" /\ req[q].message # last.message

\* the line _store_conversation writes for the call that returned last
StoredLine ==
    [session_id |-> last.session_id, intent |-> last.result.intent,
     confidence |-> last.result.confidence]

\* C9: with a session id process_message writes one conversation turn to the
\* log, made with the intent and the confidence of the generated reply; when
\* that write fails, or when there is no session id, nothing is written; and
\* the result is the one of the same call without session id and without a
\* failing write.
C9_LoggingIsBestEffort ==
    last.op = "process_message" =>
        /\ last.logged = IF Truthy(last.session_id) /\ ~last.logfail
                         THEN <<StoredLine>> ELSE <<>>
        /\ last.result = process_message(intent_patterns, last.message,
                                         last.customer_id, None, last.outcome,
                                         last.dbfail, FALSE).result

\* a call with a session id whose write to the log failed
C9_Witness ==
    /\ last.op = "process_message"
    /\ last.session_id = "s1"
    /\ last.logfail
    /\ last.logged = <<>>
    /\ last.result.intent = GREETING

\* answers of the external classifier that are failures: the service raises,
\* no content, an unknown intent name, one field, three fields, a confidence
\* that is no number
FailingOutcomes == {ServiceError, ContentNone, Content("bogus,0.5"), Content("faq"),
                    Content("faq,0.5,0.6"), Content("faq,high")}

\* the fallback of the call that returned last was entered and failed
FallbackFailed ==
    \/ last.outcome \in FailingOutcomes
    \/ /\ last.outcome = NoOutcome
       /\ ~Truthy(OPENAI_API_KEY)
       /\ With(classify_by_pattern(intent_patterns, last.message), LAMBDA best :
              ~best.raised /\ BelowThreshold(best.confidence))

\* C10: when the external classifier fallback fails (the service raises, the
\* credential is missing, the answer is not exactly an intent name and a
\* number, the intent name is unknown or the confidence is no number) the
\* classification is (unknown, 0.0) and process_message returns a result.
C10_FallbackFailureGivesUnknown ==
    last.op = "process_message" /\ FallbackFailed =>
        /\ last.cls = ClassifyFailed
        /\ last.result.intent = UNKNOWN
        /\ last.result.confidence = Zero

\* the external classifier answered with three fields
C10_Witness ==
    /\ last.op = "process_message"
    /\ last.outcome = Content("faq,0.5,0.6")
    /\ last.cls = ClassifyFailed

\* the (intent, phrase) pairs of the table in its iteration order
PatternPairs == FlattenPatterns(_load_intent_patterns)
PhraseLen(k) == Len(PatternPairs[k][2])
PhraseOwner(k) == PatternPairs[k][1]

\* the positions of the pairs whose phrase occurs in the message, letter
\* case ignored
Matching(message) ==
    {k \in 1..Len(PatternPairs) :
        \E i \in 1..Len(message) : MatchAtIgnoreCase(PatternPairs[k][2], message, i)}

\* the matching pairs with the longest phrase
Longest(matching) == {k \in matching : \A j \in matching : PhraseLen(j) <= PhraseLen(k)}

\* C11: for a message that contains a registered phrase, letter case ignored,
\* classify_by_pattern returns an intent that owns the longest phrase that
\* occurs in it, with confidence len(phrase) / len(message), which is at
\* most 1.0.
C11_LongestPhraseWins ==
    last.op = "classify_by_pattern" =>
        \E matching \in {Matching(last.message)} :
            matching # {} =>
                /\ ~last.returned.raised
                /\ last.returned.intent \in {PhraseOwner(k) : k \in Longest(matching)}
                /\ \A k \in Longest(matching) :
                      last.returned.confidence = Frac(PhraseLen(k), Len(last.message))
                /\ ~FloatGreater(last.returned.confidence, One)

\* a message in capitals in which phrases of three intents occur
C11_Witness ==
    /\ last.op = "classify_by_pattern"
    /\ last.message = "WHAT IS the RETURN POLICY and refund"
    /\ last.returned.intent = RETURN_REQUEST
    /\ last.returned.confidence = Frac(13, 36)

\* C12: for a message that contains no registered phrase, the empty message
\* included, classify_by_pattern returns (unknown, 0.0) and raises nothing.
C12_NoPhraseGivesUnknown ==
    last.op = "classify_by_pattern" /\ Matching(last.message) = {} =>
        /\ ~last.returned.raised
        /\ last.returned.intent = UNKNOWN
        /\ last.returned.confidence = Zero

\* the empty message was classified
C12_Witness ==
    /\ last.op = "classify_by_pattern"
    /\ last.message = ""
    /\ last.returned = [raised |-> FALSE, intent |-> UNKNOWN, confidence |-> Zero]

\* the first of a non-empty set of positions
First(positions) == CHOOSE k \in positions : \A j \in positions : k <= j

\* C17: when several phrases that occur in the message give the same, highest
\* confidence, classify_by_pattern returns the intent of the one that comes
\* first in the table's iteration order; the message "support", a phrase of
\* faq and of contact, is classified as faq.
C17_TieKeepsFirstSeen ==
    last.op = "classify_by_pattern" =>
        /\ \E matching \in {Matching(last.message)} :
              matching # {} =>
                  last.returned.intent = PhraseOwner(First(Longest(matching)))
        /\ last.message = "support" => last.returned.intent = FAQ

\* a message in which a phrase of greeting comes before an equally long
\* phrase of contact, the intent that the table lists first
C17_Witness ==
    /\ last.op = "classify_by_pattern"
    /\ last.message = "hello email"
    /\ last.returned.intent = CONTACT
    /\ {PhraseOwner(k) : k \in Longest(Matching(last.message))} = {CONTACT, GREETING}

\* C13: for a token T of word characters, extract_order_id of the message
\* "order id: T", the words "order id" in any letter case, returns T.
C13_OrderIdFormGivesToken ==
    last.op = "extract_order_id" =>
        \A w \in {"order id: ", "Order ID: "}, t \in Tokens :
            last.message = w \o t => last.returned = t

\* the positions at which a pattern matches
MatchesOf(s, At(_, _)) == {i \in 1..Len(s) : At(s, i) # None}

\* the token of the first of the three patterns that matches somewhere, taken
\* at its leftmost match; None when none of them matches
FirstPatternToken(s) ==
    IF MatchesOf(s, OrderPatternAt) # {}
    THEN OrderPatternAt(s, First(MatchesOf(s, OrderPatternAt)))
    ELSE IF MatchesOf(s, OrderIdPatternAt) # {}
    THEN OrderIdPatternAt(s, First(MatchesOf(s, OrderIdPatternAt)))
    ELSE IF MatchesOf(s, OrderSpaceIdPatternAt) # {}
    THEN OrderSpaceIdPatternAt(s, First(MatchesOf(s, OrderSpaceIdPatternAt)))
    ELSE None

\* "order N" stands at position i of s, N a run of digits that ends the word
OrderDigitsAt(s, i) ==
    /\ MatchAtIgnoreCase("order ", s, i)
    /\ WordEnd(s, i + 6) >= i + 6
    /\ AllDigits(SubSeq(s, i + 6, WordEnd(s, i + 6)))

\* the positions at which the word "order" stands in s, in any letter case
OrderAt(s) == {i \in 1..Len(s) : MatchAtIgnoreCase("order", s, i)}

\* C14 as stated: extract_order_id returns the token of the first of the
\* patterns "order <token>", "orderid: <token>", "order id: <token>" that
\* matches, letter case ignored, or none; and for every message that
\* contains "order N", N a run of digits, it returns N.
C14_OrderDigitsAnywhere ==
    last.op = "extract_order_id" =>
        /\ last.returned = FirstPatternToken(last.message)
        /\ \A i \in 1..Len(last.message) :
              OrderDigitsAt(last.message, i) =>
                  last.returned = SubSeq(last.message, i + 6, WordEnd(last.message, i + 6))

\* C14, amended: extract_order_id returns the token of the first of the three
\* patterns that matches, or none; for a message that contains "order N", N a
\* run of digits, it returns N when the word "order" does not occur earlier
\* in the message.
C14_FirstPatternFirstMatch ==
    last.op = "extract_order_id" =>
        /\ last.returned = FirstPatternToken(last.message)
        /\ \A i \in 1..Len(last.message) :
              OrderDigitsAt(last.message, i) /\ i = First(OrderAt(last.message)) =>
                  last.returned = SubSeq(last.message, i + 6, WordEnd(last.message, i + 6))
        /\ last.message = "What is the status of order 52768?" => last.returned = "52768"
        /\ last.message = "orderid: AB12" => last.returned = "AB12"
        /\ last.message = "ordering AB12" => last.returned = None

\* the order id of the test message was extracted
C14_Witness ==
    /\ last.op = "extract_order_id"
    /\ last.message = "What is the status of order 52768?"
    /\ last.returned = "52768"

\* the pairs <<i, j>> of positions of two double quotes of s with at least one
\* character, and no double quote, between them
QuotedSpans(s) ==
    {span \in (1..Len(s)) \X (1..Len(s)) :
        /\ span[1] + 1 < span[2]
        /\ CharAt(s, span[1]) = "\""
        /\ CharAt(s, span[2]) = "\""
        /\ \A k \in (span[1] + 1)..(span[2] - 1) : CharAt(s, k) # "\""}

\* the fixed list of product keywords
KeywordList == <<"rtx", "geforce", "shield", "jetson", "graphics card", "gpu">>

\* the positions in the list of the keywords that occur in s, letter case ignored
KeywordsIn(s) ==
    {k \in 1..Len(KeywordList) :
        \E i \in 1..Len(s) : MatchAtIgnoreCase(KeywordList[k], s, i)}

\* C15: extract_product_name returns the content of the first non-empty
\* double-quoted substring when the message has one, also when product
\* keywords occur; otherwise the first keyword of the list rtx, geforce,
\* shield, jetson, graphics card, gpu that occurs in the message, letter case
\* ignored; otherwise none.
C15_QuotedTextThenKeywords ==
    last.op = "extract_product_name" =>
        \E spans \in {QuotedSpans(last.message)} :
            IF spans # {}
            THEN \E span \in spans :
                    /\ \A other \in spans : span[1] <= other[1]
                    /\ last.returned = SubSeq(last.message, span[1] + 1, span[2] - 1)
            ELSE IF KeywordsIn(last.message) # {}
            THEN last.returned = KeywordList[First(KeywordsIn(last.message))]
            ELSE last.returned = None

\* a message with a quoted product name and a keyword outside the quotes
C15_Witness ==
    /\ last.op = "extract_product_name"
    /\ last.message = "the \"RTX\" or the gpu"
    /\ last.returned = "RTX"

\* the call that returned last is a handler call for the given intent
\* during which no read of the store failed
Handled(intent) ==
    /\ last.op = "generate_response"
    /\ last.intent = intent
    /\ ~last.dbfail

\* C16: for a message that carries order id X the return_request handler
\* says that order X is eligible for return and suggests to provide a return
\* reason exactly when the order is in the store with order_status
\* "Delivered"; for an order with another status it states that status and
\* offers no return step; for an absent order it gives the not-found reply;
\* and for a message without order id it asks for one.
C16_ReturnOnlyForDelivered ==
    Handled(RETURN_REQUEST) =>
        /\ \A X \in CarriedIds :
              last.message = "order " \o X =>
                  \E found \in {OrdersWithId(X)} :
                      IF found # <<>> /\ found[1].order_status = "Delivered"
                      THEN /\ last.returned.message =
                                "Your order " \o X \o " is eligible for return. Please provide a reason for the return."
                           /\ last.returned.suggested_actions[1] = "Provide Return Reason"
                      ELSE /\ ~Contains("eligible", last.returned.message)
                           /\ \A k \in DOMAIN last.returned.suggested_actions :
                                 last.returned.suggested_actions[k] # "Provide Return Reason"
                           /\ IF found # <<>>
                              THEN Contains("Your order " \o X \o " is currently "
                                              \o found[1].order_status \o ".",
                                            last.returned.message)
                              ELSE Contains("I couldn't find order " \o X,
                                            last.returned.message)
        /\ last.message \in {"I want to return my order", ""} =>
              last.returned.message = "To process a return, please provide your order ID."

\* the handler was asked to return an order that is still being processed
C16_Witness ==
    /\ Handled(RETURN_REQUEST)
    /\ last.message = "order 4065"
    /\ orders # <<>>
    /\ Contains("is currently Processing", last.returned.message)

\* C19: for each of the nine intents, every message and customer id, and
\* every outcome of a lookup that does not fail, the handler selected for the
\* intent returns a non-empty reply and a non-empty list of suggested actions.
C19_HandlersAreTotal ==
    last.op = "generate_response" /\ ~last.dbfail =>
        /\ ~last.handled.raised
        /\ last.handled.message # ""
        /\ last.handled.suggested_actions # <<>>
        /\ last.returned = last.handled

\* the product handler searched for a product that the store does not have
C19_Witness ==
    /\ Handled(PRODUCT_INFO)
    /\ last.message = "the \"Quadro\" card"
    /\ products # <<>>
    /\ Contains("I couldn't find any products matching 'Quadro'", last.handled.message)

\* the orders of a customer, in the order of the table
OrdersOf(customer_id) ==
    Filter(orders, [o \in {orders[i] : i \in 1..Len(orders)} |-> o.customer_id = customer_id])

\* C20: the order_status handler looks up the order id of the message when
\* there is one, whatever the customer id, and replies with the order's
\* status, and its return status when it has one, or that the order was not
\* found; without order id and with a customer id it lists orders of that
\* customer, or says that the customer has none; with neither it asks for an
\* id.
C20_OrderIdBeforeCustomerId ==
    Handled(ORDER_STATUS) =>
        /\ \A X \in CarriedIds :
              last.message = "order " \o X =>
                  \E found \in {OrdersWithId(X)} :
                      IF found = <<>>
                      THEN last.returned.message =
                               "I couldn't find order " \o X \o ". Please check the order ID and try again."
                      ELSE last.returned.message =
                               "Your order " \o X \o " is currently " \o found[1].order_status \o "."
                               \o (IF found[1].return_status \in {None, ""} THEN ""
                                   ELSE " Return status: " \o found[1].return_status \o ".")
        /\ last.message \in {"", "hello"} =>
              \E mine \in {OrdersOf(last.customer_id)} :
                  IF last.customer_id \in {None, ""}
                  THEN last.returned.message =
                           "To check your order status, please provide your order ID or customer ID."
                  ELSE IF mine = <<>>
                  THEN MatchAt("I couldn't find any orders for your account.",
                               last.returned.message, 1)
                  ELSE /\ MatchAt("Here are your recent orders:\n", last.returned.message, 1)
                       /\ Contains(mine[1].order_id \o " - " \o mine[1].product_name,
                                   last.returned.message)
                       /\ \A i \in 1..Len(orders) :
                             orders[i].customer_id # last.customer_id =>
                                 ~Contains(orders[i].order_id \o " - ", last.returned.message)

\* a customer without orders asked for an order that has a return status
C20_Witness ==
    /\ Handled(ORDER_STATUS)
    /\ last.customer_id = "C9"
    /\ last.message = "order 69268"
    /\ last.returned.message = "Your order 69268 is currently Delivered. Return status: Requested."

\* the best pattern confidence of the message is below 7/10: no phrase
\* occurs in it, or the longest that does has less than 7/10 of its length
PatternConfidenceBelow(message) ==
    \E matching \in {Matching(message)} :
        \A k \in matching : 10 * PhraseLen(k) < 7 * Len(message)

\* a call of the external classification service is justified for the message
CallAllowed(message) == OPENAI_API_KEY # "" /\ PatternConfidenceBelow(message)

\* C18: the external classification service is called only after the pattern
\* stage, and only when the best pattern confidence is below 0.7 and a
\* credential is configured: a request waits for the service, or has an
\* answer of it, only then, and a request starts to wait only in the step in
\* which process_message ran its pattern stage.
C18_ExternalCallOnlyBelowThreshold ==
    /\ [](/\ \A r \in Req : req[r].pc = "awaiting" =>
                /\ CallAllowed(req[r].message)
                /\ openai_api_key = OPENAI_API_KEY
          /\ last.op = "process_message" /\ last.outcome # NoOutcome =>
                CallAllowed(last.message))
    /\ [][\A r \in Req :
             req'[r].pc = "awaiting" /\ req[r].pc # "awaiting" => req[r].pc = "called"]_vars

\* with a credential configured, a message whose best pattern confidence is
\* exactly 0.7 was answered without a call of the service
C18_Witness ==
    /\ last.op = "process_message"
    /\ last.message = "contact us"
    /\ last.outcome = NoOutcome
    /\ OPENAI_API_KEY = "sk-test"
    /\ last.cls = [intent |-> CONTACT, confidence |-> Frac(7, 10)]

\* the bullet line of an order: "id - product (status)" ("*" for U+2022)
BulletLine(o) == "* " \o o.order_id \o " - " \o o.product_name \o " (" \o o.order_status \o ")"

\* the list reply for one, two and three orders
ListReply(lines) ==
    "Here are your recent orders:\n"
    \o (IF Len(lines) = 1 THEN lines[1]
        ELSE IF Len(lines) = 2 THEN lines[1] \o "\n" \o lines[2]
        ELSE lines[1] \o "\n" \o lines[2] \o "\n" \o lines[3])
    \o "\n\nPlease provide an order ID for detailed status."

C22_OneCallOneReadNoRetry ==
    /\ [](last.op = "process_message" =>
            /\ Len(last.reads) <= 1
            /\ last.outcome = NoOutcome \/ last.outcome \in Outcomes)
    /\ [][\A r \in Req :
            /\ req[r].pc = "awaiting" /\ req'[r] # req[r] =>
                  /\ req'[r].pc = "idle"
                  /\ last'.op = "process_message"
                  /\ last'.outcome # NoOutcome
                  /\ last'.outcome \in FailingOutcomes =>
                        /\ last'.result.intent = UNKNOWN
                        /\ last'.reads = <<>>
            /\ req'[r].pc = "awaiting" => req[r].pc \in {"called", "awaiting"}
            /\ req[r].pc = "called" /\ req'[r].pc = "idle" =>
                  last'.op = "process_message" /\ last'.outcome = NoOutcome]_vars

C22_Witness ==
    /\ last.op = "process_message"
    /\ last.outcome = Content("order_status,0.9")
    /\ last.dbfail
    /\ last.reads = <<"get_order_by_id">>
    /\ last.result.message = CouldNotProcess.message

\* C23: a called request whose best pattern confidence is at least the
\* threshold returns its result, also while another request waits for an
\* answer of the external classifier that never comes: it runs in one step
\* from its call to its return, makes no external call and leaves the other
\* requests where they are.
C23_FastPathNeverWaits ==
    /\ \A r \in Req :
          (req[r].pc = "called" /\ ~PatternConfidenceBelow(req[r].message))
             ~> (req[r].pc = "idle")
    /\ [][\A r \in Req :
            req[r].pc = "called" /\ ~PatternConfidenceBelow(req[r].message)
               /\ req'[r] # req[r] =>
                  /\ req'[r].pc = "idle"
                  /\ last'.op = "process_message"
                  /\ last'.message = req[r].message
                  /\ last'.outcome = NoOutcome
                  /\ \A q \in Req \ {r} : req'[q] = req[q]]_vars

C23_Witness ==
    /\ OPENAI_API_KEY # ""
    /\ \E q \in Req : req[q].pc = "awaiting"
    /\ \E r \in Req : req[r].pc = "idle"
    /\ last.op = "process_message"
    /\ last.message = "track order"
    /\ last.outcome = NoOutcome
    /\ last.result.intent = ORDER_STATUS

\* what the external classifier said, for each of its answers that is an
\* intent name and a number; (unknown, 0.0) stands for every other outcome
ExternalAnswer(outcome) ==
    CASE outcome = Content("faq,0.9")              -> [intent |-> FAQ, confidence |-> Frac(9, 10)]
      [] outcome = Content("contact,0.7")          -> [intent |-> CONTACT, confidence |-> Frac(7, 10)]
      [] outcome = Content("order_status,0.9")     -> [intent |-> ORDER_STATUS, confidence |-> Frac(9, 10)]
      [] outcome = Content("return_request, 0.85") -> [intent |-> RETURN_REQUEST, confidence |-> Frac(17, 20)]
      [] outcome = Content(" faq , 0.4 ")          -> [intent |-> FAQ, confidence |-> Frac(2, 5)]
      [] outcome = Content("greeting,-0.5")        -> [intent |-> GREETING, confidence |-> Frac(-1, 2)]
      [] outcome = Content("contact,1.5")          -> [intent |-> CONTACT, confidence |-> Frac(3, 2)]
      [] outcome = Content("goodbye,nan")          -> [intent |-> GOODBYE, confidence |-> NaN]
      [] OTHER                                     -> [intent |-> UNKNOWN, confidence |-> Zero]

\* the same with a confidence above 1.0 replaced by 1.0
ExternalAnswerCapped(outcome) ==
    IF outcome = Content("contact,1.5") THEN [intent |-> CONTACT, confidence |-> One]
    ELSE ExternalAnswer(outcome)

\* C24 as stated: below the threshold _classify_intent returns the intent and
\* the confidence the external classifier gave.
C24_ReturnsExternalConfidence ==
    last.op = "process_message" /\ PatternConfidenceBelow(last.message)
       /\ last.outcome # NoOutcome =>
          last.cls = ExternalAnswer(last.outcome)

\* C24: whenever the best pattern confidence is below the threshold,
\* _classify_intent returns the external classifier's intent with its
\* confidence capped at 1.0, or (unknown, 0.0) when the external classifier
\* fails or no credential is configured, and never the pattern stage's intent
\* for being the surer one; with no credential every process_message result
\* is unknown with confidence 0.0 or has a confidence of at least 0.7.
C24_BelowThresholdExternalDecides ==
    last.op = "process_message" =>
       /\ PatternConfidenceBelow(last.message) =>
             IF last.outcome = NoOutcome
             THEN OPENAI_API_KEY = "" /\ last.cls = [intent |-> UNKNOWN, confidence |-> Zero]
             ELSE last.cls = ExternalAnswerCapped(last.outcome)
       /\ OPENAI_API_KEY = "" =>
             \/ last.result.intent = UNKNOWN /\ last.result.confidence = Zero
             \/ ~FloatLess(last.result.confidence, MIN_CONFIDENCE)

C24_Witness ==
    /\ last.op = "process_message"
    /\ last.message = "contact us!"
    /\ classify_by_pattern(intent_patterns, last.message) =
          [raised |-> FALSE, intent |-> CONTACT, confidence |-> Frac(7, 11)]
    /\ last.outcome = Content(" faq , 0.4 ")
    /\ last.cls = [intent |-> FAQ, confidence |-> Frac(2, 5)]
    /\ last.result.intent = FAQ

\* C25: ProductService.search_products(query, category, limit) returns at
\* most limit products for every combination of query and category,
\* including when a category is given.
C25_AtMostLimitProducts ==
    last.op = "search_products" => Len(last.returned) <= last.limit

\* C26: when the message carries an order id, the reply of the order_status
\* and of the return_request handler is the same for every customer id and
\* for none: it is the reply the handler gives to each of the other customer
\* ids for the same message, store and outcome of the read, so an order is
\* shown to a customer it does not belong to.
C26_ReplyIgnoresCustomerId ==
    /\ last.op = "generate_response"
    /\ last.intent \in {ORDER_STATUS, RETURN_REQUEST}
    /\ \E X \in CarriedIds : last.message = "order " \o X
    => \A c \in HandlerCustomerIds :
          _generate_response(last.message, last.intent, c, None, last.dbfail) = last.returned

\* customer C9, who has no order, asks to return order 52768 of customer C1
C26_Witness ==
    /\ Handled(RETURN_REQUEST)
    /\ last.message = "order 52768"
    /\ last.customer_id = "C9"
    /\ OrdersOf("C9") = <<>>
    /\ \E found \in {OrdersWithId("52768")} : found # <<>> /\ found[1].customer_id = "C1"
    /\ last.returned.message =
          "Your order 52768 is eligible for return. Please provide a reason for the return."

\* C27: process_return_request keeps no record of earlier requests: a
\* request that was accepted is accepted again when it is repeated and the
\* read succeeds, with the same estimated refund, and with the same return id
\* when both requests are made on the same date; and an order whose
\* return_status is already set is accepted whenever its order_status is
\* "Delivered".
C27_RepeatedReturnAcceptedAgain ==
    /\ prev.op = "process_return_request" /\ last.op = "process_return_request"
       /\ prev.returned.value.status = "Requested" /\ ~last.dbfail =>
          /\ last.order_id = prev.order_id
          /\ last.returned.value.status = "Requested"
          /\ last.returned.value.estimated_refund = prev.returned.value.estimated_refund
          /\ last.today = prev.today =>
                last.returned.value.return_id = prev.returned.value.return_id
          /\ last.today # prev.today =>
                last.returned.value.return_id # prev.returned.value.return_id
    /\ last.op = "process_return_request" /\ ~last.dbfail =>
          \E found \in {OrdersWithId(last.order_id)} :
             found # <<>> /\ found[1].order_status = "Delivered"
                /\ found[1].return_status # None =>
                   last.returned.value.status = "Requested"

\* the return of order 69268, whose return_status is "Requested", was
\* requested twice on the same date
C27_Witness ==
    /\ prev.op = "process_return_request"
    /\ last.op = "process_return_request"
    /\ last.order_id = "69268"
    /\ prev.returned.value.status = "Requested"
    /\ OrdersWithId("69268")[1].return_status = "Requested"
    /\ prev.today = last.today
    /\ prev.returned.value.return_id = "RET-69268-20240115"
    /\ last.returned.value = prev.returned.value

\* the three replies of the return_request handler for order id X
EligibleReply(X) ==
    "Your order " \o X \o " is eligible for return. Please provide a reason for the return."
NotFoundReply(X) ==
    "I couldn't find order " \o X \o ". Please check the order ID and try again."
IneligibleReply(X, order_status) ==
    "Your order " \o X \o " is currently " \o order_status
       \o ". Returns are only available for delivered orders."

\* C28: for every store and order id X, the return_request handler of the
\* chat gives the eligible-for-return reply exactly when
\* OrderService.process_return_request for X returns Requested, and the
\* not-found or the ineligible reply exactly when it returns Rejected; both
\* do so exactly when the order is in the store with order_status
\* "Delivered", whatever its return_status.
C28_ChatAndServiceAgreeOnReturns ==
    Handled(RETURN_REQUEST) =>
        \A X \in CarriedIds : last.message = "order " \o X =>
            \E found \in {OrdersWithId(X)} :
            \A d \in Dates :
            \E r \in {process_return_request(X, "damaged", d, FALSE).value} :
                /\ r.status \in {"Requested", "Rejected"}
                /\ last.returned.message = EligibleReply(X) <=> r.status = "Requested"
                /\ (\/ last.returned.message = NotFoundReply(X)
                    \/ found # <<>> /\ last.returned.message =
                                         IneligibleReply(X, found[1].order_status))
                   <=> r.status = "Rejected"
                /\ r.status = "Requested" <=>
                      found # <<>> /\ found[1].order_status = "Delivered"

\* the chat offers, and the service accepts, the return of order 69268, whose
\* return is already under way
C28_Witness ==
    /\ Handled(RETURN_REQUEST)
    /\ last.message = "order 69268"
    /\ last.returned.message = EligibleReply("69268")
    /\ process_return_request("69268", "damaged", "20240115", FALSE).value.status = "Requested"
    /\ \E found \in {OrdersWithId("69268")} :
          found # <<>> /\ found[1].return_status = "Requested"

====
